---- MODULE Spec2Model ----
(***************************************************************************)
(* The minesweeper board engine: lazy mine placement on the first open,    *)
(* the action processor (GameCommand::apply), the state application engine *)
(* (GameState::apply / GameState::undo), the diff history and the facade's *)
(* update cycle.                                                           *)
(***************************************************************************)
EXTENDS Integers, Sequences, FiniteSets, TLC

VARIABLES args, game_state, history, first_open, panicked, input_state, sample

vars ==
  <<args, game_state, history, first_open, panicked, input_state, sample>>

\* sample is the state of a fill_random call in progress: the size of the
\* vector, the set `whitelisted` as it is now and as it was before the last
\* draw, the last draw r0 after the modulus and the index r it was skipped
\* forward to; NoSample when no call is in progress
NoSample == [size |-> 0, whitelisted |-> {}, before |-> {}, r0 |-> -1, r |-> -1]

(***************************************************************************)
(* Bounds of the model and the input sets the actions draw from.           *)
(***************************************************************************)
\* most diffs the history holds at once
MaxHistory == 3

\* the action processor's own counters are never rewound by an undo, so they
\* grow without limit over open/undo and flag/undo rounds: the model stops
\* dispatching once open_cells or flagged_cells would pass these
MaxOpenCells == 18

MaxFlagged == 2

\* a random stream is seed, seed + step, seed + 2*step, ... (as u32 values)
RandSeeds == {38}

RandSteps == {59}

\* mine counts requested on the command line
InitMines == {54}

\* cursors the input layer sends with OpenCell / FlagCell / ClearFlag
Cursors == {<<0, 0>>, <<1, 1>>, <<7, 5>>}

\* the cursors OpenCell is tried at
OpenCursors == {<<0, 0>>, <<7, 5>>}

\* the cursors FlagCell is tried at
FlagCursors == {<<0, 0>>, <<1, 1>>}

\* the cursors ClearFlag is tried at
ClearCursors == {<<1, 1>>}

(***************************************************************************)
(* Machine integers.                                                       *)
(***************************************************************************)
U16 == 65536

Min(a, b) == IF a < b THEN a ELSE b

Max(a, b) == IF a < b THEN b ELSE a

Clamp(x, lo, hi) == Max(lo, Min(hi, x))

\* u16::saturating_add_signed
SaturatingAddSigned16(x, d) == Clamp(x + d, 0, U16 - 1)

\* u16::overflowing_add_signed(..).0
WrappingAddSigned16(x, d) == (x + d) % U16

\* A u32 is written as its two's-complement representative: v below 2^31 as v,
\* v from 2^31 on as v - 2^32. Wrapping addition and subtraction (the release
\* build's) are then the integers' own, and 0 - 1 is the u32 4294967295.
Add32(a, b) == a + b

Sub32(a, b) == a - b

\* a < b as u32 values
Lt32(a, b) == IF (a < 0) = (b < 0) THEN a < b ELSE b < 0

\* u32::saturating_add_signed, for a u32 below 2^31
SaturatingAddSigned32(x, d) == Max(0, x + d)

\* the multiple of b at or below a
PrevMultipleOf(a, b) == a - (a % b)

\* u32::next_multiple_of
NextMultipleOf(a, b) == IF (a % b) = 0 THEN a ELSE a + (b - (a % b))

(***************************************************************************)
(* Cell model.                                                             *)
(***************************************************************************)
Clear == "Clear"

Flagged == "Flagged"

FlaggedMaybe == "FlaggedMaybe"

Flag == {Clear, Flagged, FlaggedMaybe}

\* TileVisibility: Hidden(flag) is represented by the flag, Show by "Show"
Hidden(f) == f

Show == "Show"

IsHidden(v) == v \in Flag

\* CellContent
Empty(n) == [tag |-> "Empty", n |-> n]

Mine == [tag |-> "Mine"]

IsEmpty(c) == c.tag = "Empty"

IsMine(c) == c.tag = "Mine"

DefaultCell == [visibility |-> Hidden(Clear), content |-> Empty(0)]

FlagOrd(f) == CASE f = Clear -> 0 [] f = Flagged -> 1 [] f = FlaggedMaybe -> 2

FLAG_SIZE == 3

\* Flag::next stepping by two
FlagNextSkipping(f) ==
  CASE f = Clear -> FlaggedMaybe [] f = Flagged -> Clear [] f = FlaggedMaybe -> Flagged

FlagNext(f) ==
  LET next == (FlagOrd(f) + 1) % FLAG_SIZE
  IN  CASE next = 0 -> Clear
        [] next = 1 -> Flagged
        [] next = 2 -> FlaggedMaybe
        [] OTHER -> Clear

Untouched == "Untouched"

Ongoing == "Ongoing"

Lost == "Lost"

Won == "Won"

(***************************************************************************)
(* util.rs                                                                 *)
(***************************************************************************)
\* the four directions along the axes only
DIRS_4 == << <<1, 0>>, <<0, 1>>, <<-1, 0>>, <<0, -1>> >>

DIRS_8 == << <<1, 0>>, <<1, 1>>, <<0, 1>>, <<-1, 1>>,
             <<-1, 0>>, <<-1, -1>>, <<0, -1>>, <<1, -1>> >>

DIRS_9 == << <<0, 0>> >> \o DIRS_8

NoIndex == -1

\* Option<usize>: NoIndex stands for None
xy_i(xy, w, h) ==
  IF w <= xy[1] \/ h <= xy[2] THEN NoIndex ELSE xy[2] * w + xy[1]

i_xy(i, w, h) == <<i % w, i \div w>>

InBounds(xy, w, h) == w > xy[1] /\ h > xy[2]

\* the iterator of valid_neighbors, as the sequence it yields
valid_neighbors(dirs, xy, w, h) ==
  LET moved == [k \in 1..Len(dirs) |->
                  <<SaturatingAddSigned16(xy[1], dirs[k][1]),
                    SaturatingAddSigned16(xy[2], dirs[k][2])>>]
      Keep(c) == InBounds(c, w, h)
  IN  SelectSeq(moved, Keep)


SetMin(S) == CHOOSE x \in S : \A y \in S : x <= y

\* the k-th value (k = 0, 1, ...) the generator returns for next_u32()
next_u32(seed, step, k) == seed + k * step

\* the state of the skip-forward loop: the members of whitelisted not yet
\* visited, r, and whether the loop has hit its break
SkipStart(whitelisted, r) == [rest |-> whitelisted, r |-> r, done |-> FALSE]

\* one round of the loop comparing with `<` where the code has `<=`
SkipRoundStrict(st) ==
  IF st.rest = {} \/ st.done THEN st
  ELSE LET wl == SetMin(st.rest)
       IN  IF wl < st.r
           THEN [rest |-> st.rest \ {wl}, r |-> st.r + 1, done |-> FALSE]
           ELSE [st EXCEPT !.done = TRUE]

RECURSIVE SkipRoundsStrict(_, _)
\* n rounds of that loop
SkipRoundsStrict(st, n) ==
  IF n <= 0 THEN st
  ELSE IF n = 1 THEN SkipRoundStrict(st)
  ELSE LET half == SkipRoundsStrict(st, n \div 2)
       IN  IF half.done \in BOOLEAN THEN SkipRoundsStrict(half, n - n \div 2)
           ELSE half

\* the skip-forward loop comparing with `<` where the code has `<=`
SkipForwardStrict(whitelisted, r) ==
  SkipRoundsStrict(SkipStart(whitelisted, r), Cardinality(whitelisted)).r

\* the skip-forward loop stopped after its first round
SkipForwardOnce(whitelisted, r) ==
  IF whitelisted # {} /\ SetMin(whitelisted) <= r THEN r + 1 ELSE r

\* one round of `for wl in whitelisted.iter()` (a BTreeSet: ascending):
\* r = if *wl <= r { r + 1 } else { break }; st itself once the loop is over
SkipRound(st) ==
  IF st.rest = {} \/ st.done THEN st
  ELSE LET wl == SetMin(st.rest)
       IN  IF wl <= st.r
           THEN [rest |-> st.rest \ {wl}, r |-> st.r + 1, done |-> FALSE]
           ELSE [st EXCEPT !.done = TRUE]

RECURSIVE SkipRounds(_, _)
\* n rounds of the loop, one after the other: the first half of them, then
\* (on the state they leave) the rest
SkipRounds(st, n) ==
  IF n <= 0 THEN st
  ELSE IF n = 1 THEN SkipRound(st)
  ELSE LET half == SkipRounds(st, n \div 2)
       IN  IF half.done \in BOOLEAN THEN SkipRounds(half, n - n \div 2)
           ELSE half

\* for wl in whitelisted.iter() { r = if *wl <= r { r + 1 } else { break } }
SkipForward(whitelisted, r) ==
  SkipRounds(SkipStart(whitelisted, r), Cardinality(whitelisted)).r

\* the state of the fill loop: ret and the set of chosen indices
FillState(ret, whitelisted) == [ret |-> ret, whitelisted |-> whitelisted]

\* the k-th round of the fill loop without `whitelisted.insert(r)`
FillRoundNoInsert(st, k, value, seed, step) ==
  LET r0 == next_u32(seed, step, k) % (Len(st.ret) - Cardinality(st.whitelisted))
      r  == SkipForward(st.whitelisted, r0)
  IN  [st EXCEPT !.ret = [@ EXCEPT ![r + 1] = value]]

RECURSIVE FillRoundsNoInsert(_, _, _, _, _, _)
\* the rounds lo..hi of that loop
FillRoundsNoInsert(st, lo, hi, value, seed, step) ==
  IF lo > hi THEN st
  ELSE IF lo = hi THEN FillRoundNoInsert(st, lo, value, seed, step)
  ELSE LET mid  == (lo + hi) \div 2
           half == FillRoundsNoInsert(st, lo, mid, value, seed, step)
       IN  IF Len(half.ret) = Len(st.ret)
           THEN FillRoundsNoInsert(half, mid + 1, hi, value, seed, step)
           ELSE half

\* the fill loop without `whitelisted.insert(r)`
FillLoopNoInsert(ret, whitelisted, k, fills, value, seed, step) ==
  FillRoundsNoInsert(FillState(ret, whitelisted), k, fills - 1, value,
                     seed, step).ret

\* the k-th round (k = 0, 1, ...) of the `for _ in 0..fills` loop
FillRound(st, k, value, seed, step) ==
  LET r0 == next_u32(seed, step, k) % (Len(st.ret) - Cardinality(st.whitelisted))
      r  == SkipForward(st.whitelisted, r0)
  IN  [ret         |-> [st.ret EXCEPT ![r + 1] = value],
       whitelisted |-> st.whitelisted \cup {r}]

RECURSIVE FillRounds(_, _, _, _, _, _)
\* the rounds lo..hi of the loop, in order: those up to the middle, then (on
\* the state they leave) the rest
FillRounds(st, lo, hi, value, seed, step) ==
  IF lo > hi THEN st
  ELSE IF lo = hi THEN FillRound(st, lo, value, seed, step)
  ELSE LET mid  == (lo + hi) \div 2
           half == FillRounds(st, lo, mid, value, seed, step)
       IN  IF Len(half.ret) = Len(st.ret)
           THEN FillRounds(half, mid + 1, hi, value, seed, step)
           ELSE half

\* the `for _ in 0..fills` loop of fill_random, from its k-th iteration on
FillLoop(ret, whitelisted, k, fills, value, seed, step) ==
  FillRounds(FillState(ret, whitelisted), k, fills - 1, value, seed, step).ret

\* fill_random without the `if flip { ret[*wl] = value }` loop
fill_random_unmarked(whitelist, size, fills0, init_value0, value0, seed, step) ==
  LET flip       == fills0 > size \div 2
      fills      == IF flip THEN size - fills0 - Cardinality(whitelist) ELSE fills0
      init_value == IF flip THEN value0 ELSE init_value0
      value      == IF flip THEN init_value0 ELSE value0
      ret0       == [i \in 1..size |-> init_value]
  IN  FillLoop(ret0, whitelist, 0, fills, value, seed, step)

\* fill_random; the returned Vec<bool> is the sequence ret, ret[i + 1] for index i
fill_random(whitelist, size, fills0, init_value0, value0, seed, step) ==
  LET flip       == fills0 > size \div 2
      fills      == IF flip THEN size - fills0 - Cardinality(whitelist) ELSE fills0
      init_value == IF flip THEN value0 ELSE init_value0
      value      == IF flip THEN init_value0 ELSE value0
      ret0       == [i \in 1..size |->
                       IF flip /\ (i - 1) \in whitelist THEN value ELSE init_value]
  IN  FillLoop(ret0, whitelist, 0, fills, value, seed, step)

(***************************************************************************)
(* minesweeper.rs: mine placement on the first open                        *)
(***************************************************************************)
\* _get_tile_mut: the index of the tile, NoIndex for None
get_tile_index(w, h, x, y) == IF w <= x \/ h <= y THEN NoIndex ELSE x + y * w

RECURSIVE BumpNeighborsWrapping(_, _, _, _, _, _)
\* the neighbour loop with coordinates taken modulo the board's sides
BumpNeighborsWrapping(cs, w, h, x, y, k) ==
  IF k > Len(DIRS_8) THEN cs
  ELSE LET i == (x + DIRS_8[k][1]) % w
           j == (y + DIRS_8[k][2]) % h
           t == get_tile_index(w, h, i, j)
       IN  IF t = NoIndex \/ ~IsEmpty(cs[t].content)
           THEN BumpNeighborsWrapping(cs, w, h, x, y, k + 1)
           ELSE BumpNeighborsWrapping(
                  [cs EXCEPT ![t].content = Empty(cs[t].content.n + 1)],
                  w, h, x, y, k + 1)

RECURSIVE BumpNeighbors(_, _, _, _, _, _)
\* the `for (dx, dy) in DIRS_8` loop of set_mine, from its k-th direction on
BumpNeighbors(cs, w, h, x, y, k) ==
  IF k > Len(DIRS_8) THEN cs
  ELSE LET i == WrappingAddSigned16(x, DIRS_8[k][1])
           j == WrappingAddSigned16(y, DIRS_8[k][2])
           t == get_tile_index(w, h, i, j)
       IN  IF t = NoIndex \/ ~IsEmpty(cs[t].content)
           THEN BumpNeighbors(cs, w, h, x, y, k + 1)
           ELSE BumpNeighbors(
                  [cs EXCEPT ![t].content = Empty(cs[t].content.n + 1)],
                  w, h, x, y, k + 1)

\* set_mine that marks the mine and leaves the neighbours' counts alone
SetMineUncounted(cs, w, h, x, y) ==
  LET t == get_tile_index(w, h, x, y)
  IN  IF t = NoIndex \/ ~IsEmpty(cs[t].content) THEN cs
      ELSE [cs EXCEPT ![t].content = Mine]

set_mine(cs, w, h, x, y) ==
  LET t == get_tile_index(w, h, x, y)
  IN  IF t = NoIndex \/ ~IsEmpty(cs[t].content) THEN cs
      ELSE BumpNeighbors([cs EXCEPT ![t].content = Mine], w, h, x, y, 1)

\* one round of the loop over mine_grid: set_mine for index i if it is a mine
SetMineAt(cs, mine_grid, w, h, i) ==
  IF mine_grid[i + 1] THEN set_mine(cs, w, h, i % w, i \div w) ELSE cs

RECURSIVE SetMinesRange(_, _, _, _, _, _)
\* the rounds for the indices lo..hi, in order: those up to the middle, then
\* (on the board they leave) the rest
SetMinesRange(cs, mine_grid, w, h, lo, hi) ==
  IF lo > hi THEN cs
  ELSE IF lo = hi THEN SetMineAt(cs, mine_grid, w, h, lo)
  ELSE LET mid  == (lo + hi) \div 2
           half == SetMinesRange(cs, mine_grid, w, h, lo, mid)
       IN  IF DOMAIN half = DOMAIN cs
           THEN SetMinesRange(half, mine_grid, w, h, mid + 1, hi)
           ELSE half

\* for (i, _) in mine_grid.iter().enumerate().filter(is_mine) { set_mine(..) },
\* from index i on
SetMines(cs, mine_grid, w, h, i) ==
  SetMinesRange(cs, mine_grid, w, h, i, Len(mine_grid) - 1)

\* the whitelist around the cursor itself, not moved inward
WhitelistUnclamped(a, xy) ==
  LET nb == valid_neighbors(DIRS_9, xy, a.width, a.height)
  IN  {nb[k][1] + nb[k][2] * a.width : k \in 1..Len(nb)}

\* the whitelist without the cell in its centre
WhitelistRing(a, xy) ==
  LET x  == Clamp(xy[1], 1, a.width - 2)
      y  == Clamp(xy[2], 1, a.height - 2)
      nb == valid_neighbors(DIRS_8, <<x, y>>, a.width, a.height)
  IN  {nb[k][1] + nb[k][2] * a.width : k \in 1..Len(nb)}

\* the indices show_tile passes to fill_random as the whitelist
Whitelist(a, xy) ==
  LET x  == Clamp(xy[1], 1, a.width - 2)
      y  == Clamp(xy[2], 1, a.height - 2)
      nb == valid_neighbors(DIRS_9, <<x, y>>, a.width, a.height)
  IN  {nb[k][1] + nb[k][2] * a.width : k \in 1..Len(nb)}

\* the `if let Untouched = self.win_state` block of show_tile
PlaceMines(cs, a, xy, seed, step) ==
  LET size      == a.width * a.height
      mine_grid == fill_random(Whitelist(a, xy), size, a.mines, FALSE, TRUE,
                               seed, step)
  IN  IF Len(mine_grid) = size
      THEN SetMines(cs, mine_grid, a.width, a.height, 0)
      ELSE cs


(***************************************************************************)
(* action.rs: the action processor                                         *)
(***************************************************************************)
OpenCell(xy) == [kind |-> "OpenCell", xy |-> xy]

FlagCell(xy) == [kind |-> "FlagCell", xy |-> xy]

ClearFlag(xy) == [kind |-> "ClearFlag", xy |-> xy]

Surrender == [kind |-> "Surrender"]

\* Cell::diff taking `before` after the assignment instead of before it
CellDiffStale(cell, i, visibility) ==
  [index |-> i, before |-> [cell EXCEPT !.visibility = visibility],
   after |-> [cell EXCEPT !.visibility = visibility]]

\* Cell::diff that also resets the content of the cell it writes
CellDiffClearing(cell, i, visibility) ==
  [index |-> i, before |-> cell,
   after |-> [visibility |-> visibility, content |-> DefaultCell.content]]

\* Cell::diff: the SingleCellDiff it returns; the cell itself becomes .after
CellDiff(cell, i, visibility) ==
  [index |-> i, before |-> cell,
   after |-> [cell EXCEPT !.visibility = visibility]]

SingleCell(d) == [kind |-> "SingleCell", cells |-> <<d>>]

MultiCell(v) == [kind |-> "MultiCell", cells |-> v]

\* Diff { win_state, diff }
Diff(win, diff) == [win_state |-> win, diff |-> diff]

RECURSIVE ExpandNeighbors(_, _, _, _, _)
\* the `for xy in valid_neighbors(&DIRS_8, c, w, h)` loop, from the k-th
\* neighbour on; st = [cells, ret, stack, panic] and, to count the work done,
\* pushed (every cell ever pushed onto the stack) and pops (pop_back calls
\* that returned a cell)
ExpandNeighbors(st, nb, k, w, h) ==
  IF k > Len(nb) \/ st.panic THEN st
  ELSE LET xy   == nb[k]
           i    == xy_i(xy, w, h)
           cell == st.cells[i]
       IN  IF i = NoIndex THEN [st EXCEPT !.panic = TRUE]
           ELSE IF ~IsHidden(cell.visibility)
           THEN ExpandNeighbors(st, nb, k + 1, w, h)
           ELSE IF ~IsEmpty(cell.content) THEN [st EXCEPT !.panic = TRUE]
           ELSE LET d  == CellDiff(cell, i, Show)
                    s1 == [st EXCEPT !.cells[i] = d.after,
                                     !.ret = Append(@, d),
                                     !.stack = IF cell.content.n = 0
                                               THEN Append(@, xy) ELSE @,
                                     !.pushed = IF cell.content.n = 0
                                                THEN Append(@, xy) ELSE @]
                IN  ExpandNeighbors(s1, nb, k + 1, w, h)

\* the loop left after its first round: only the origin is expanded
ExpandLoopOnce(st, w, h) ==
  IF st.stack = <<>> \/ st.panic THEN st
  ELSE LET c  == st.stack[Len(st.stack)]
           s1 == [st EXCEPT !.stack = SubSeq(@, 1, Len(@) - 1),
                            !.pops = @ + 1]
       IN  ExpandNeighbors(s1, valid_neighbors(DIRS_8, c, w, h), 1, w, h)

\* one round of `while let Some(c) = stack.pop_back() { ... }`; st itself when
\* the stack is empty
ExpandRound(st, w, h) ==
  IF st.stack = <<>> \/ st.panic THEN st
  ELSE LET c  == st.stack[Len(st.stack)]
           s1 == [st EXCEPT !.stack = SubSeq(@, 1, Len(@) - 1),
                            !.pops = @ + 1]
       IN  ExpandNeighbors(s1, valid_neighbors(DIRS_8, c, w, h), 1, w, h)

RECURSIVE ExpandRounds(_, _, _, _)
\* n rounds of the loop, one after the other: the first half of them, then
\* (on the record they leave) the rest
ExpandRounds(st, w, h, n) ==
  IF n <= 1 THEN ExpandRound(st, w, h)
  ELSE LET half == ExpandRounds(st, w, h, n \div 2)
       IN  IF half.pops >= st.pops THEN ExpandRounds(half, w, h, n - n \div 2)
           ELSE half

RECURSIVE ExpandLoop(_, _, _)
\* while let Some(c) = stack.pop_back() { ... }: rounds until the stack is
\* empty
ExpandLoop(st, w, h) ==
  IF st.stack = <<>> \/ st.panic THEN st
  ELSE ExpandLoop(ExpandRounds(st, w, h, w * h), w, h)

\* expand_cell_diff_result that leaves the origin cell as it was until the
\* loop meets it again
ExpandOriginUnmarked(cs, w, h, idx) ==
  LET d == CellDiff(cs[idx], idx, Show)
  IN  ExpandLoop([cells  |-> cs,
                  ret    |-> <<d>>,
                  stack  |-> <<i_xy(idx, w, h)>>,
                  panic  |-> FALSE,
                  pushed |-> <<i_xy(idx, w, h)>>,
                  pops   |-> 0], w, h)

\* expand_cell_diff_result: the record when the loop ends
expand_cell_diff_result(cs, w, h, idx) ==
  LET d == CellDiff(cs[idx], idx, Show)
  IN  ExpandLoop([cells |-> [cs EXCEPT ![idx] = d.after],
                  ret   |-> <<d>>,
                  stack |-> <<i_xy(idx, w, h)>>,
                  panic |-> FALSE,
                  pushed |-> <<i_xy(idx, w, h)>>,
                  pops   |-> 0], w, h)

\* the indices the Surrender loop pushes a diff for, in its order
NotShown(cs, size) ==
  LET all == [k \in 1..size |-> k - 1]
      Closed(i) == cs[i].visibility # Show
  IN  SelectSeq(all, Closed)

NoDiff == <<>>

Some(d) == <<d>>

\* what GameCommand::apply leaves behind: the game it was given (mutated in
\* place), the Option<Diff> it returns, and whether it panicked
Outcome(game, diff, panic) == [game |-> game, diff |-> diff, panic |-> panic]

OpenWin(open, size, mines) == IF open = Sub32(size, mines) THEN Won ELSE Ongoing

\* OpenCell whose Mine arm reveals every hidden mine, not the opened one alone
ApplyOpenCellCascade(xy, game, a) ==
  LET w     == a.width
      h     == a.height
      i     == xy_i(xy, w, h)
      cell  == game.cells[i]
      size  == w * h
      mines == a.mines
  IN  IF i = NoIndex THEN Outcome(game, NoDiff, FALSE)
      ELSE IF cell.visibility \notin {Hidden(Clear), Hidden(FlaggedMaybe)}
      THEN Outcome(game, NoDiff, FALSE)
      ELSE IF IsEmpty(cell.content) /\ cell.content.n = 0
      THEN LET e    == expand_cell_diff_result(game.cells, w, h, i)
               open == Add32(game.open_cells, Len(e.ret))
           IN  Outcome([game EXCEPT !.cells = e.cells, !.open_cells = open],
                       Some(Diff(OpenWin(open, size, mines), MultiCell(e.ret))),
                       e.panic)
      ELSE IF IsEmpty(cell.content)
      THEN LET d    == CellDiff(cell, i, Show)
               open == Add32(game.open_cells, 1)
           IN  Outcome([game EXCEPT !.cells[i] = d.after, !.open_cells = open],
                       Some(Diff(OpenWin(open, size, mines), SingleCell(d))),
                       FALSE)
      ELSE LET todo   == NotShown(game.cells, size)
               IsM(j) == IsMine(game.cells[j].content)
               ms     == SelectSeq(todo, IsM)
               ret    == [k \in 1..Len(ms) |->
                            CellDiff(game.cells[ms[k]], ms[k], Show)]
           IN  Outcome([game EXCEPT !.cells =
                          [j \in DOMAIN @ |->
                             IF IsM(j) THEN [@[j] EXCEPT !.visibility = Show]
                             ELSE @[j]]],
                       Some(Diff(Lost, MultiCell(ret))), FALSE)

\* OpenCell without the guard on the visibility of its target
ApplyOpenCellAnyTarget(xy, game, a) ==
  LET w     == a.width
      h     == a.height
      i     == xy_i(xy, w, h)
      cell  == game.cells[i]
      size  == w * h
      mines == a.mines
  IN  IF i = NoIndex THEN Outcome(game, NoDiff, FALSE)
      ELSE IF IsEmpty(cell.content) /\ cell.content.n = 0
      THEN LET e    == expand_cell_diff_result(game.cells, w, h, i)
               open == Add32(game.open_cells, Len(e.ret))
           IN  Outcome([game EXCEPT !.cells = e.cells, !.open_cells = open],
                       Some(Diff(OpenWin(open, size, mines), MultiCell(e.ret))),
                       e.panic)
      ELSE IF IsEmpty(cell.content)
      THEN LET d    == CellDiff(cell, i, Show)
               open == Add32(game.open_cells, 1)
           IN  Outcome([game EXCEPT !.cells[i] = d.after, !.open_cells = open],
                       Some(Diff(OpenWin(open, size, mines), SingleCell(d))),
                       FALSE)
      ELSE LET d == CellDiff(cell, i, Show)
           IN  Outcome([game EXCEPT !.cells[i] = d.after],
                       Some(Diff(Lost, SingleCell(d))), FALSE)

ApplyOpenCell(xy, game, a) ==
  LET w     == a.width
      h     == a.height
      i     == xy_i(xy, w, h)
      cell  == game.cells[i]
      size  == w * h
      mines == a.mines
  IN  IF i = NoIndex THEN Outcome(game, NoDiff, FALSE)
      ELSE IF cell.visibility \notin {Hidden(Clear), Hidden(FlaggedMaybe)}
      THEN Outcome(game, NoDiff, FALSE)
      ELSE IF IsEmpty(cell.content) /\ cell.content.n = 0
      THEN LET e    == expand_cell_diff_result(game.cells, w, h, i)
               open == Add32(game.open_cells, Len(e.ret))
           IN  Outcome([game EXCEPT !.cells = e.cells, !.open_cells = open],
                       Some(Diff(OpenWin(open, size, mines), MultiCell(e.ret))),
                       e.panic)
      ELSE IF IsEmpty(cell.content)
      THEN LET d    == CellDiff(cell, i, Show)
               open == Add32(game.open_cells, 1)
           IN  Outcome([game EXCEPT !.cells[i] = d.after, !.open_cells = open],
                       Some(Diff(OpenWin(open, size, mines), SingleCell(d))),
                       FALSE)
      ELSE LET d == CellDiff(cell, i, Show)
           IN  Outcome([game EXCEPT !.cells[i] = d.after],
                       Some(Diff(Lost, SingleCell(d))), FALSE)

ApplyFlagCell(xy, game, a) ==
  LET i    == xy_i(xy, a.width, a.height)
      cell == game.cells[i]
  IN  IF i = NoIndex THEN Outcome(game, NoDiff, FALSE)
      ELSE IF ~IsHidden(cell.visibility) THEN Outcome(game, NoDiff, FALSE)
      ELSE LET f1 == IF cell.visibility = Hidden(Flagged)
                     THEN Sub32(game.flagged_cells, 1) ELSE game.flagged_cells
               f2 == IF cell.visibility = Hidden(Clear)
                     THEN Add32(f1, 1) ELSE f1
               d  == CellDiff(cell, i, Hidden(FlagNext(cell.visibility)))
           IN  Outcome([game EXCEPT !.cells[i] = d.after, !.flagged_cells = f2],
                       Some(Diff(Ongoing, SingleCell(d))), FALSE)

ApplyClearFlag(xy, game, a) ==
  LET i    == xy_i(xy, a.width, a.height)
      cell == game.cells[i]
  IN  IF i = NoIndex THEN Outcome(game, NoDiff, FALSE)
      ELSE IF cell.visibility \in {Show, Hidden(Clear)}
      THEN Outcome(game, NoDiff, FALSE)
      ELSE LET f == IF cell.visibility = Hidden(Flagged)
                    THEN Sub32(game.flagged_cells, 1) ELSE game.flagged_cells
               d == CellDiff(cell, i, Hidden(Clear))
           IN  Outcome([game EXCEPT !.cells[i] = d.after, !.flagged_cells = f],
                       Some(Diff(Ongoing, SingleCell(d))), FALSE)

ApplySurrender(game, a) ==
  LET todo == NotShown(game.cells, a.width * a.height)
      ret  == [k \in 1..Len(todo) |-> CellDiff(game.cells[todo[k]], todo[k], Show)]
  IN  \* ret.reserve_exact(game.cells.len() - game.open_cells as usize)
      IF Lt32(a.width * a.height, game.open_cells)
      THEN Outcome(game, NoDiff, TRUE)
      ELSE Outcome([game EXCEPT !.cells = [i \in DOMAIN @ |->
                                            [@[i] EXCEPT !.visibility = Show]]],
                   Some(Diff(Lost, MultiCell(ret))), FALSE)

\* GameCommand::apply without the `let Ongoing = game.win_state` guard
GameCommandApplyUnguarded(cmd, game, a) ==
  CASE cmd.kind = "OpenCell"  -> ApplyOpenCell(cmd.xy, game, a)
    [] cmd.kind = "FlagCell"  -> ApplyFlagCell(cmd.xy, game, a)
    [] cmd.kind = "ClearFlag" -> ApplyClearFlag(cmd.xy, game, a)
    [] cmd.kind = "Surrender" -> ApplySurrender(game, a)

\* GameCommand::apply that refuses commands on a lost game only
GameCommandApplyUnlessLost(cmd, game, a) ==
  IF game.win_state = Lost THEN Outcome(game, NoDiff, FALSE)
  ELSE GameCommandApplyUnguarded(cmd, game, a)

\* GameCommand::apply
GameCommandApply(cmd, game, a) ==
  IF game.win_state # Ongoing THEN Outcome(game, NoDiff, FALSE)
  ELSE CASE cmd.kind = "OpenCell"  -> ApplyOpenCell(cmd.xy, game, a)
         [] cmd.kind = "FlagCell"  -> ApplyFlagCell(cmd.xy, game, a)
         [] cmd.kind = "ClearFlag" -> ApplyClearFlag(cmd.xy, game, a)
         [] cmd.kind = "Surrender" -> ApplySurrender(game, a)


(***************************************************************************)
(* The state application engine: GameState::apply and GameState::undo      *)
(***************************************************************************)
\* the win_state the counters determine
RecomputeWinState(closed_empty, open_mine) ==
  IF Lt32(0, open_mine) THEN Lost
  ELSE IF closed_empty = 0 THEN Won
  ELSE Ongoing

\* the counter adjustment for one cell of the given content going from
\* visibility `from` to visibility `to`
AdjustCounters(game, content, from, to) ==
  LET shown  == IsHidden(from) /\ to = Show
      hidden == from = Show /\ IsHidden(to)
      ce == IF IsEmpty(content) /\ shown
            THEN Sub32(game.closed_empty_cells, 1)
            ELSE IF IsEmpty(content) /\ hidden
            THEN Add32(game.closed_empty_cells, 1)
            ELSE game.closed_empty_cells
      om == IF IsMine(content) /\ shown
            THEN Add32(game.open_mine_cells, 1)
            ELSE IF IsMine(content) /\ hidden
            THEN Sub32(game.open_mine_cells, 1)
            ELSE game.open_mine_cells
      fl == IF from # Hidden(Flagged) /\ to = Hidden(Flagged)
            THEN Add32(game.flagged_cells, 1)
            ELSE IF from = Hidden(Flagged) /\ to # Hidden(Flagged)
            THEN Sub32(game.flagged_cells, 1)
            ELSE game.flagged_cells
  IN  [game EXCEPT !.closed_empty_cells = ce, !.open_mine_cells = om,
                   !.flagged_cells = fl]

\* per-cell apply: adjust the counters, then overwrite the cell with `after`
ApplyCell(game, d) ==
  [AdjustCounters(game, d.before.content, d.before.visibility,
                  d.after.visibility)
     EXCEPT !.cells[d.index] = d.after]

\* per-cell undo: reverse the counters, then overwrite the cell with `before`
UndoCell(game, d) ==
  [AdjustCounters(game, d.before.content, d.after.visibility,
                  d.before.visibility)
     EXCEPT !.cells[d.index] = d.before]

RECURSIVE ApplyCellsRange(_, _, _, _)
\* the per-cell applies of the entries lo..hi of a diff, in diff order: those
\* up to the middle, then (on the game they leave) the rest
ApplyCellsRange(game, ds, lo, hi) ==
  IF lo > hi THEN game
  ELSE IF lo = hi THEN ApplyCell(game, ds[lo])
  ELSE LET mid  == (lo + hi) \div 2
           half == ApplyCellsRange(game, ds, lo, mid)
       IN  IF DOMAIN half.cells = DOMAIN game.cells
           THEN ApplyCellsRange(half, ds, mid + 1, hi)
           ELSE half

\* the per-cell applies of a diff, in diff order, from its k-th entry on
ApplyCells(game, ds, k) == ApplyCellsRange(game, ds, k, Len(ds))

\* the per-cell undo of one entry; st = [game, ok], ok turns FALSE when the
\* cell differs from the recorded `after`
UndoCellChecked(st, d) ==
  [game |-> UndoCell(st.game, d),
   ok   |-> st.ok /\ st.game.cells[d.index] = d.after]

RECURSIVE UndoCellsRange(_, _, _, _)
\* the per-cell undos of the entries lo..hi of a diff, in diff order
UndoCellsRange(st, ds, lo, hi) ==
  IF lo > hi THEN st
  ELSE IF lo = hi THEN UndoCellChecked(st, ds[lo])
  ELSE LET mid  == (lo + hi) \div 2
           half == UndoCellsRange(st, ds, lo, mid)
       IN  IF half.ok \in BOOLEAN
           THEN UndoCellsRange(half, ds, mid + 1, hi)
           ELSE half

\* the per-cell undos of a diff, in diff order, from its k-th entry on
UndoCells(st, ds, k) == UndoCellsRange(st, ds, k, Len(ds))

WithWinState(game) ==
  [game EXCEPT !.win_state =
     RecomputeWinState(game.closed_empty_cells, game.open_mine_cells)]

GameStateApply(game, diff) == WithWinState(ApplyCells(game, diff.diff.cells, 1))

\* [game, ok]: ok is FALSE when the undo assertion fails
GameStateUndo(game, diff) ==
  LET u == UndoCells([game |-> game, ok |-> TRUE], diff.diff.cells, 1)
  IN  [game |-> WithWinState(u.game), ok |-> u.ok]

(***************************************************************************)
(* History                                                                 *)
(***************************************************************************)
EmptyHistory == [diffs |-> <<>>, index |-> 0]

\* the entries push keeps: everything beyond the cursor is dropped
Truncated(hist) == SubSeq(hist.diffs, 1, Len(hist.diffs) - hist.index)

\* push that appends after the undone entries and leaves them in the log
HistoryPushKeepingTail(hist, diff) ==
  [diffs |-> Append(hist.diffs, diff), index |-> 0]

HistoryPush(hist, diff) == [diffs |-> Append(Truncated(hist), diff), index |-> 0]

\* the oldest diff of the log, wherever the cursor is
BackDiffOldest(hist) == hist.diffs[1]

\* the diff step_back undoes: the one immediately before the cursor
BackDiff(hist) == hist.diffs[Len(hist.diffs) - hist.index]

\* the diff step_forward re-applies: the one the cursor points at
ForwardDiff(hist) == hist.diffs[Len(hist.diffs) - hist.index + 1]

CanStepBack(hist) == hist.index < Len(hist.diffs)

CanStepForward(hist) == hist.index > 0

\* step_back that moves the cursor even when nothing is left to undo
StepBackPastOldest(game, hist) ==
  IF CanStepBack(hist)
  THEN LET u == GameStateUndo(game, BackDiff(hist))
       IN  [game |-> u.game, history |-> [hist EXCEPT !.index = @ + 1],
            ok |-> u.ok]
  ELSE [game |-> game, history |-> [hist EXCEPT !.index = @ + 1], ok |-> TRUE]

\* step_back on a game and its history: [game, history, ok], ok FALSE when
\* the undo assertion fails
step_back(game, hist) ==
  IF CanStepBack(hist)
  THEN LET u == GameStateUndo(game, BackDiff(hist))
       IN  [game |-> u.game, history |-> [hist EXCEPT !.index = @ + 1],
            ok |-> u.ok]
  ELSE [game |-> game, history |-> hist, ok |-> TRUE]

\* step_forward that re-applies the diff and leaves the cursor where it was
StepForwardCursorKept(game, hist) ==
  IF CanStepForward(hist)
  THEN [game |-> GameStateApply(game, ForwardDiff(hist)),
        history |-> hist, ok |-> TRUE]
  ELSE [game |-> game, history |-> hist, ok |-> TRUE]

\* step_forward on a game and its history
step_forward(game, hist) ==
  IF CanStepForward(hist)
  THEN [game |-> GameStateApply(game, ForwardDiff(hist)),
        history |-> [hist EXCEPT !.index = @ - 1], ok |-> TRUE]
  ELSE [game |-> game, history |-> hist, ok |-> TRUE]


(***************************************************************************)
(* args.rs and the facade                                                  *)
(***************************************************************************)
MIN_SIDE == 8

MAX_SIDE == 256

SAFE_ZONE == 9

\* MinesweeperArgs::clamped
\* clamped with the safe zone left out of the largest mine count
clampedToSize(a) ==
  LET w == Clamp(a.width, MIN_SIDE, MAX_SIDE)
      h == Clamp(a.height, MIN_SIDE, MAX_SIDE)
      max_mines == w * h
  IN  [width |-> w, height |-> h, mines |-> Clamp(a.mines, 1, max_mines)]

clamped(a) ==
  LET w == Clamp(a.width, MIN_SIDE, MAX_SIDE)
      h == Clamp(a.height, MIN_SIDE, MAX_SIDE)
      max_mines == w * h - SAFE_ZONE
  IN  [width |-> w, height |-> h, mines |-> Clamp(a.mines, 1, max_mines)]

\* the board of a freshly constructed engine, for clamped args
NewGameState(a) ==
  LET size == a.width * a.height
  IN  [cells              |-> [i \in 0..(size - 1) |-> DefaultCell],
       win_state          |-> Untouched,
       flagged_cells      |-> 0,
       open_cells         |-> 0,
       closed_empty_cells |-> size - a.mines,
       open_mine_cells    |-> 0]

Negative == -1

Positive == 1

Signs == {Negative, Positive}

NoRestartAction == [kind |-> "None"]

RestartActions ==
  {NoRestartAction}
    \cup {[kind |-> k, sign |-> s] :
            k \in {"ResizeH", "ResizeV", "IncrementMinesPercent", "IncrementMines"},
            s \in Signs}

\* the args a Restart(o) hands to Self::new
RestartArgs(a, o) ==
  CASE o.kind = "None" -> a
    [] o.kind = "IncrementMinesPercent" ->
         LET size      == a.width * a.height
             hundredth == Max(1, size \div 100)
         IN  [a EXCEPT !.mines =
                IF o.sign > 0
                THEN NextMultipleOf(Add32(a.mines, 1), hundredth)
                ELSE NextMultipleOf(Max(0, a.mines - hundredth), hundredth)]
    [] o.kind = "ResizeH" ->
         [a EXCEPT !.width = SaturatingAddSigned16(a.width, o.sign)]
    [] o.kind = "ResizeV" ->
         [a EXCEPT !.height = SaturatingAddSigned16(a.height, o.sign)]
    [] o.kind = "IncrementMines" ->
         [a EXCEPT !.mines = SaturatingAddSigned32(a.mines, o.sign)]

InitWidths == {0, 8}

InitHeights == {8}

InitArgs ==
  {[width |-> w, height |-> h, mines |-> m] :
     w \in InitWidths, h \in InitHeights, m \in InitMines}

\* the args the model plays with: those a start from InitArgs gives
ArgsAllowed(a) == a \in {clamped(r) : r \in InitArgs}

(***************************************************************************)
(* input_state.rs: the cursor and the pending single-action slot           *)
(***************************************************************************)
None == <<>>

Command(c) == [tag |-> "Command", arg |-> c]

Restart(o) == [tag |-> "Restart", arg |-> o]

Undo == "Undo"

Redo == "Redo"

Debug(d) == [tag |-> "Debug", arg |-> d]

DefaultInputState == [cursor |-> <<0, 0>>, action |-> None]

\* update() returning with the pending slot as it found it
KeptAction(inp) == inp

\* the last statement of update(): the pending slot is emptied
ClearedAction(inp) == [inp EXCEPT !.action = None]

\* Restart clamping the cursor it carries over to the new board
RestartCursorClamped(cursor, a) ==
  <<Clamp(cursor[1], 0, a.width - 1), Clamp(cursor[2], 0, a.height - 1)>>

\* the cursor a Restart leaves: the clamped pair is assigned first, and the
\* cursor saved before Self::new is assigned over it
RestartCursor(cursor, a) ==
  LET clamped_cursor == <<Clamp(cursor[1], 0, a.width - 1),
                          Clamp(cursor[2], 0, a.height - 1)>>
      assigned       == <<clamped_cursor, cursor>>
  IN  assigned[Len(assigned)]

\* Minesweeper::move_cursor
move_cursor(cursor, d, a) ==
  LET x == cursor[1]
      y == cursor[2]
  IN  <<IF d[1] < 0 THEN Max(0, x - (-d[1])) ELSE Min(a.width - 1, (x + d[1]) % U16),
        IF d[2] < 0 THEN Max(0, y - (-d[2])) ELSE Min(a.height - 1, (y + d[2]) % U16)>>

Commands ==
  {OpenCell(c) : c \in OpenCursors} \cup {FlagCell(c) : c \in FlagCursors}
    \cup {ClearFlag(c) : c \in ClearCursors} \cup {Surrender}

Init ==
  /\ args \in {clamped(r) : r \in InitArgs}
  /\ game_state = NewGameState(args)
  /\ history = EmptyHistory
  /\ first_open = <<>>
  /\ panicked = "none"
  /\ input_state = DefaultInputState
  /\ sample = NoSample

\* the engine after the lazy placement of the first OpenCell: mines placed
\* around cmd.xy, win_state Ongoing
Placed(cmd, seed, step) ==
  [game_state EXCEPT !.cells = PlaceMines(@, args, cmd.xy, seed, step),
                     !.win_state = Ongoing]

\* the counters stay below the bounds of the model (as u32 values)
WithinBounds(game) ==
  /\ ~Lt32(MaxOpenCells, game.open_cells)
  /\ ~Lt32(MaxFlagged, game.flagged_cells)

\* the game after the dispatch of an action processor outcome r: the diff,
\* when there is one, goes through the state application engine
Applied(r) ==
  IF r.panic \/ r.diff = NoDiff THEN r.game
  ELSE GameStateApply(r.game, r.diff[1])

\* the game a dispatched command leaves
AfterCommand(cmd, game, a) == Applied(GameCommandApply(cmd, game, a))

\* action processor -> state application engine -> History.push
Dispatch(cmd, game) ==
  LET r == GameCommandApply(cmd, game, args)
  IN  /\ game_state' = Applied(r)
      /\ panicked' = IF r.panic THEN "apply" ELSE panicked
      /\ history' = IF r.panic \/ r.diff = NoDiff THEN history
                    ELSE HistoryPush(history, r.diff[1])
      /\ sample' = sample
      /\ input_state' = ClearedAction(input_state)

\* update() with a pending OpenCell(xy) on an Untouched board: the lazy
\* placement around xy, then the dispatch
PlaceOpen(xy, seed, step) ==
  /\ panicked = "none"
  /\ game_state.win_state = Untouched
  /\ Dispatch(OpenCell(xy), Placed(OpenCell(xy), seed, step))
  /\ first_open' = <<xy>>
  /\ UNCHANGED args

\* update() with a pending Command(cmd)
CommandUpdate(cmd) ==
  /\ panicked = "none"
  /\ Len(Truncated(history)) < MaxHistory
  /\ IF cmd.kind = "OpenCell" /\ game_state.win_state = Untouched
     THEN \E seed \in RandSeeds, step \in RandSteps :
            PlaceOpen(cmd.xy, seed, step)
     ELSE /\ Dispatch(cmd, game_state)
          /\ UNCHANGED <<args, first_open>>

\* update() with a pending Command(cmd), within the bounds on the counters
UpdateCommand(cmd) ==
  /\ CommandUpdate(cmd)
  /\ WithinBounds(game_state')

\* History.step_back
HistoryStepBack ==
  /\ panicked = "none"
  /\ LET r == step_back(game_state, history)
     IN  /\ game_state' = r.game
         /\ history' = r.history
         /\ panicked' = IF r.ok THEN "none" ELSE "undo"
  /\ sample' = sample
  /\ input_state' = ClearedAction(input_state)
  /\ UNCHANGED <<args, first_open>>

\* History.step_back, within the bounds on the counters
StepBack ==
  /\ HistoryStepBack
  /\ WithinBounds(game_state')

\* History.step_forward
HistoryStepForward ==
  /\ panicked = "none"
  /\ LET r == step_forward(game_state, history)
     IN  /\ game_state' = r.game
         /\ history' = r.history
  /\ sample' = sample
  /\ input_state' = ClearedAction(input_state)
  /\ UNCHANGED <<args, first_open, panicked>>

\* History.step_forward, within the bounds on the counters
StepForward ==
  /\ HistoryStepForward
  /\ WithinBounds(game_state')

\* a Restart that constructs the new engine and keeps the History it had
RestartKeepingHistory(o) ==
  /\ panicked = "none"
  /\ LET a == clamped(RestartArgs(args, o))
     IN  /\ args' = a
         /\ game_state' = NewGameState(a)
         /\ sample' = sample
         /\ input_state' =
              ClearedAction([DefaultInputState EXCEPT
                               !.cursor = RestartCursor(input_state.cursor, a)])
  /\ UNCHANGED <<history, first_open, panicked>>

\* update() with a pending Restart(o): the args move, a new engine is
\* constructed for them and the cursor is carried over
RestartFresh(o) ==
  /\ panicked = "none"
  /\ LET a == clamped(RestartArgs(args, o))
     IN  /\ args' = a
         /\ game_state' = NewGameState(a)
         /\ sample' = sample
         /\ input_state' =
              ClearedAction([DefaultInputState EXCEPT
                               !.cursor = RestartCursor(input_state.cursor, a)])
  /\ history' = EmptyHistory
  /\ first_open' = <<>>
  /\ UNCHANGED panicked

\* update() with a pending Restart(o), within the args the model plays with
UpdateRestart(o) ==
  /\ RestartFresh(o)
  /\ ArgsAllowed(args')

Next ==
  \/ \E cmd \in Commands : UpdateCommand(cmd)
  \/ StepBack
  \/ StepForward
  \/ \E o \in RestartActions : UpdateRestart(o)

Spec == Init /\ [][Next]_vars

(***************************************************************************)
(* Mine placement alone: every board of PlacementArgs, first opened at     *)
(* every cursor of PlacementCursors, for every stream of draws             *)
(***************************************************************************)
PlacementWidths == {8, 9}

PlacementHeights == {8}

PlacementMines == {1, 3, 32, 33, 36, 37, 54, 55, 62, 63}

PlacementArgs ==
  {clamped([width |-> w, height |-> h, mines |-> m]) :
     w \in PlacementWidths, h \in PlacementHeights, m \in PlacementMines}

PlacementCursors(a) ==
  {<<x, y>> : x \in {0, 1, 4, a.width - 1}, y \in {0, 3, a.height - 1}}

PlacementSeeds == {38, 123456789}

PlacementSteps == {0, 59}

InitPlacement ==
  /\ args \in PlacementArgs
  /\ game_state = NewGameState(args)
  /\ history = EmptyHistory
  /\ first_open = <<>>
  /\ panicked = "none"
  /\ input_state = DefaultInputState
  /\ sample = NoSample

NextPlacement ==
  \E xy \in PlacementCursors(args), seed \in PlacementSeeds,
     step \in PlacementSteps : PlaceOpen(xy, seed, step)

SpecPlacement == InitPlacement /\ [][NextPlacement]_vars

(***************************************************************************)
(* The input layer and the pending-action protocol: key events fill the    *)
(* pending slot or move the cursor, update() takes the slot.  Boards at    *)
(* the smallest sizes and the largest mine counts, cursor on the top row   *)
(***************************************************************************)
InputWidths == {8, 9}

InputHeights == {8}

InputInitMines == {63}

InputMines == {55, 63}

\* the args a game of this specification starts with
InputInitArgs ==
  {clamped([width |-> w, height |-> h, mines |-> m]) :
     w \in InputWidths, h \in InputHeights, m \in InputInitMines}

\* the args its Restart actions may lead to
InputArgs ==
  {clamped([width |-> w, height |-> h, mines |-> m]) :
     w \in InputWidths, h \in InputHeights, m \in InputMines}

MoveDirs == {<<-1, 0>>, <<1, 0>>}

MaxInputHistory == 1

\* the cursors at which the keys that act on a cell are pressed: the last
\* column of the 9x8 board, one column past the 8x8 board
KeyCursors == {<<8, 0>>}

InputRestarts ==
  {NoRestartAction, [kind |-> "ResizeH", sign |-> Negative],
   [kind |-> "ResizeH", sign |-> Positive],
   [kind |-> "ResizeV", sign |-> Negative],
   [kind |-> "IncrementMines", sign |-> Positive],
   [kind |-> "IncrementMinesPercent", sign |-> Positive]}

\* on_key_event: the action a key press leaves in the pending slot
KeyActions(cursor) ==
  (IF cursor \in KeyCursors
   THEN {Command(OpenCell(cursor)), Command(FlagCell(cursor)),
         Command(ClearFlag(cursor))}
   ELSE {})
    \cup {Command(Surrender), Debug(Undo), Debug(Redo)}
    \cup {Restart(o) : o \in InputRestarts}

InitInput ==
  /\ args \in InputInitArgs
  /\ game_state = NewGameState(args)
  /\ history = EmptyHistory
  /\ first_open = <<>>
  /\ panicked = "none"
  /\ input_state = DefaultInputState
  /\ sample = NoSample

\* a key press that asks for an action
Submit(a) ==
  /\ panicked = "none"
  /\ sample' = sample
  /\ input_state' = [input_state EXCEPT !.action = Some(a)]
  /\ UNCHANGED <<args, game_state, history, first_open, panicked>>

\* an arrow key
MoveCursor(d) ==
  /\ panicked = "none"
  /\ sample' = sample
  /\ input_state' = [input_state EXCEPT !.cursor = move_cursor(@, d, args)]
  /\ UNCHANGED <<args, game_state, history, first_open, panicked>>

Pending(tag) ==
  /\ input_state.action # None
  /\ input_state.action[1].tag = tag

\* update() with an empty pending slot
UpdateIdle ==
  /\ input_state.action = None
  /\ UNCHANGED vars

UpdatePendingCommand ==
  /\ Pending("Command")
  /\ Len(Truncated(history)) < MaxInputHistory
  /\ UpdateCommand(input_state.action[1].arg)

UpdatePendingRestart ==
  /\ Pending("Restart")
  /\ RestartFresh(input_state.action[1].arg)
  /\ args' \in InputArgs

UpdatePendingDebug ==
  /\ Pending("Debug")
  /\ IF input_state.action[1].arg = Undo THEN StepBack ELSE StepForward

\* Minesweeper::update
Update ==
  \/ UpdateIdle
  \/ UpdatePendingCommand
  \/ UpdatePendingRestart
  \/ UpdatePendingDebug

NextInput ==
  \/ \E a \in KeyActions(input_state.cursor) : Submit(a)
  \/ \E d \in MoveDirs : MoveCursor(d)
  \/ Update

SpecInput == InitInput /\ [][NextInput]_vars

(***************************************************************************)
(* Opening, undoing and opening again: the commands that reveal cells,     *)
(* undo and redo, with open_cells left to grow past the size of the board  *)
(***************************************************************************)
MaxReopened == 72

ReopenCommands == {OpenCell(c) : c \in OpenCursors} \cup {Surrender}

ReopenBounds == ~Lt32(MaxReopened, game_state'.open_cells)

NextReopen ==
  \/ \E cmd \in ReopenCommands : CommandUpdate(cmd) /\ ReopenBounds
  \/ HistoryStepBack /\ ReopenBounds
  \/ HistoryStepForward /\ ReopenBounds

SpecReopen == Init /\ [][NextReopen]_vars

(***************************************************************************)
(* The args alone: games started with any args, and their Restart actions, *)
(* at the smallest and the largest sides and mine counts                   *)
(***************************************************************************)
RawSides == {0, 9, 255, 65535}

RawMines == {0, 2147483647}

RawArgs ==
  {[width |-> w, height |-> h, mines |-> m] :
     w \in RawSides, h \in RawSides, m \in RawMines}

ArgsSides == {8, 9, 255, 256}

\* the mine counts the Restart actions are followed to, on a board of the
\* sides of a: the three smallest, the three largest, and the multiples of a
\* hundredth of the board next to them
ArgsMines(a) ==
  LET size      == a.width * a.height
      hundredth == Max(1, size \div 100)
      max_mines == size - SAFE_ZONE
  IN  {1, 2, 3, hundredth, hundredth * (max_mines \div hundredth),
       max_mines - 2, max_mines - 1, max_mines}

InitArgsOnly ==
  /\ args \in {clamped(r) : r \in RawArgs}
  /\ game_state = NewGameState(args)
  /\ history = EmptyHistory
  /\ first_open = <<>>
  /\ panicked = "none"
  /\ input_state = DefaultInputState
  /\ sample = NoSample

NextArgsOnly ==
  \E o \in RestartActions :
    /\ RestartFresh(o)
    /\ args'.width \in ArgsSides
    /\ args'.height \in ArgsSides
    /\ args'.mines \in ArgsMines(args')

SpecArgs == InitArgsOnly /\ [][NextArgsOnly]_vars

(***************************************************************************)
(* Floods: boards with few mines, where an OpenCell expands over regions   *)
(* of many cells; flags set inside the regions, undo, and further opens    *)
(***************************************************************************)
FloodArgs ==
  {clamped([width |-> 8, height |-> 8, mines |-> 6]),
   clamped([width |-> 9, height |-> 8, mines |-> 9])}

\* open_cells is let grow to the size of the largest board
MaxFloodOpened == 72

MaxFloodHistory == 2

FloodBounds ==
  /\ ~Lt32(MaxFloodOpened, game_state'.open_cells)
  /\ ~Lt32(MaxFlagged, game_state'.flagged_cells)

FloodSeeds == {38}

FloodSteps == {59}

\* the cursors of the first OpenCell, and the origins the floods start from
FloodOrigins == {<<0, 0>>, <<4, 3>>}

FloodFlagCursors == {<<1, 1>>}

FloodCommands ==
  {OpenCell(c) : c \in FloodOrigins} \cup {FlagCell(c) : c \in FloodFlagCursors}

InitFlood ==
  /\ args \in FloodArgs
  /\ game_state = NewGameState(args)
  /\ history = EmptyHistory
  /\ first_open = <<>>
  /\ panicked = "none"
  /\ input_state = DefaultInputState
  /\ sample = NoSample

NextFlood ==
  \/ \E xy \in FloodOrigins, seed \in FloodSeeds, step \in FloodSteps :
       PlaceOpen(xy, seed, step)
  \/ \E cmd \in FloodCommands :
       /\ game_state.win_state # Untouched
       /\ Len(Truncated(history)) < MaxFloodHistory
       /\ CommandUpdate(cmd)
       /\ FloodBounds
  \/ HistoryStepBack /\ FloodBounds

SpecFlood == InitFlood /\ [][NextFlood]_vars

(***************************************************************************)
(* The sampling loop of fill_random alone: from every set `whitelisted` of *)
(* indices below SampleSize, one draw after another                        *)
(***************************************************************************)
SampleSize == 6

\* values of next_u32() as usize
SampleDraws == 0..(SampleSize - 1) \cup {123456789}

InitSample ==
  /\ args \in {clamped(r) : r \in InitArgs}
  /\ game_state = NewGameState(args)
  /\ history = EmptyHistory
  /\ first_open = <<>>
  /\ panicked = "none"
  /\ input_state = DefaultInputState
  /\ sample \in {[size |-> SampleSize, whitelisted |-> W, before |-> W,
                  r0 |-> -1, r |-> -1] : W \in SUBSET (0..(SampleSize - 1))}

\* one round of the `for _ in 0..fills` loop: the draw, the skip-forward loop
\* and whitelisted.insert(r)
FillStep(draw) ==
  /\ Cardinality(sample.whitelisted) < sample.size
  /\ LET r0 == draw % (sample.size - Cardinality(sample.whitelisted))
         r  == SkipForward(sample.whitelisted, r0)
     IN  sample' = [sample EXCEPT !.before = sample.whitelisted,
                                  !.whitelisted = @ \cup {r},
                                  !.r0 = r0,
                                  !.r = r]
  /\ UNCHANGED <<args, game_state, history, first_open, panicked, input_state>>

NextSample == \E draw \in SampleDraws : FillStep(draw)

SpecSample == InitSample /\ [][NextSample]_vars

(***************************************************************************)
(* Flags on a board with a single mine: the first open, its undo, and      *)
(* flags set and cleared on the hidden board                               *)
(***************************************************************************)
FlagsArgs == {clamped([width |-> 8, height |-> 8, mines |-> 1])}

FlagsCursors == {<<1, 1>>, <<6, 6>>}

FlagsCommands ==
  {FlagCell(c) : c \in FlagsCursors} \cup {ClearFlag(c) : c \in FlagsCursors}

\* flagged_cells is let grow to this value
MaxFlagsCounted == 6

InitFlags ==
  /\ args \in FlagsArgs
  /\ game_state = NewGameState(args)
  /\ history = EmptyHistory
  /\ first_open = <<>>
  /\ panicked = "none"
  /\ input_state = DefaultInputState
  /\ sample = NoSample

NextFlags ==
  \/ \E seed \in RandSeeds, step \in RandSteps : PlaceOpen(<<0, 0>>, seed, step)
  \/ \E cmd \in FlagsCommands :
       /\ game_state.win_state # Untouched
       /\ CommandUpdate(cmd)
       /\ ~Lt32(MaxFlagsCounted, game_state'.flagged_cells)
  \/ HistoryStepBack /\ ~Lt32(MaxFlagsCounted, game_state'.flagged_cells)
  \/ HistoryStepForward /\ ~Lt32(MaxFlagsCounted, game_state'.flagged_cells)

SpecFlags == InitFlags /\ [][NextFlags]_vars

(***************************************************************************)
(* fill_random as show_tile calls it, draw by draw: the whitelist of the    *)
(* first open, the branch taken and the number of draws, then one round of  *)
(* the loop per step, with the modulus and the index of every draw          *)
(***************************************************************************)
FillSides == {8, 9, 256}

\* mine counts asked for; clamped() brings the last to width*height - 9
FillMines == {1, 3, 32, 33, 36, 37, 54, 62, 2147483647}

\* the boards fill_random is followed on: the small ones with every count of
\* FillMines, the large ones where the loop has at most a few rounds
FillArgs ==
  {a \in {clamped([width |-> w, height |-> h, mines |-> m]) :
            w \in FillSides, h \in FillSides, m \in FillMines} :
     a.width * a.height > 100 =>
       \/ a.mines <= 3
       \/ a.mines = a.width * a.height - SAFE_ZONE}

FillCursors(a) == {<<0, 0>>, <<4, 3>>, <<a.width - 1, a.height - 1>>}

FillSeeds == {38, 123456789}

FillSteps == {59}

\* fill_random up to its loop: the whitelist as a set, the branch, the
\* number of rounds (as an integer, negative where the usize subtraction
\* would underflow)
FillStart(a, xy, seed, step) ==
  LET size      == a.width * a.height
      whitelist == Whitelist(a, xy)
      flip      == a.mines > size \div 2
  IN  [size        |-> size,
       whitelisted |-> whitelist,
       before      |-> whitelist,
       flip        |-> flip,
       fills       |-> IF flip THEN size - a.mines - Cardinality(whitelist)
                       ELSE a.mines,
       k           |-> 0,
       seed        |-> seed,
       step        |-> step,
       modulus     |-> -1,
       r0          |-> -1,
       r           |-> -1]

InitFill ==
  /\ args \in FillArgs
  /\ game_state = NewGameState(args)
  /\ history = EmptyHistory
  /\ first_open = <<>>
  /\ panicked = "none"
  /\ input_state = DefaultInputState
  /\ \E xy \in FillCursors(args), seed \in FillSeeds, step \in FillSteps :
       sample = FillStart(args, xy, seed, step)

\* one round of `for _ in 0..fills`: a remainder by zero and an index past
\* the end of ret panic
FillDraw ==
  /\ panicked = "none"
  /\ sample.k < sample.fills
  /\ LET modulus == sample.size - Cardinality(sample.whitelisted)
     IN  IF modulus = 0
         THEN /\ panicked' = "fill_random"
              /\ sample' = [sample EXCEPT !.modulus = 0]
         ELSE LET r0 == next_u32(sample.seed, sample.step, sample.k) % modulus
                  r  == SkipForward(sample.whitelisted, r0)
              IN  /\ panicked' = IF r < sample.size THEN "none" ELSE "fill_random"
                  /\ sample' = [sample EXCEPT
                                  !.before = sample.whitelisted,
                                  !.whitelisted = IF r < sample.size
                                                  THEN sample.whitelisted \cup {r}
                                                  ELSE sample.whitelisted,
                                  !.k = sample.k + 1,
                                  !.modulus = modulus,
                                  !.r0 = r0,
                                  !.r = r]
  /\ UNCHANGED <<args, game_state, history, first_open, input_state>>

NextFill == FillDraw

SpecFill == InitFill /\ [][NextFill]_vars

(***************************************************************************)
(* Properties                                                              *)
(***************************************************************************)
Indices == DOMAIN game_state.cells

HiddenEmpty ==
  {i \in Indices : /\ IsEmpty(game_state.cells[i].content)
                   /\ IsHidden(game_state.cells[i].visibility)}

ShownMines ==
  {i \in Indices : /\ IsMine(game_state.cells[i].content)
                   /\ game_state.cells[i].visibility = Show}

HiddenMines ==
  {i \in Indices : /\ IsMine(game_state.cells[i].content)
                   /\ IsHidden(game_state.cells[i].visibility)}

FlaggedNow == {i \in Indices : game_state.cells[i].visibility = Hidden(Flagged)}

ShownNow == {i \in Indices : game_state.cells[i].visibility = Show}

\* the fields C1 lists, of a game
Listed(game) ==
  [cells              |-> game.cells,
   flagged_cells      |-> game.flagged_cells,
   closed_empty_cells |-> game.closed_empty_cells,
   open_mine_cells    |-> game.open_mine_cells,
   win_state          |-> game.win_state]

\* the boards the lazy placement around the first opened cursor can give
PlacedBoards ==
  {[NewGameState(args) EXCEPT
      !.cells = PlaceMines(@, args, first_open[1], seed, step),
      !.win_state = Ongoing] : seed \in RandSeeds, step \in RandSteps}

\* every move made since the placement has been undone, latest first
AllUndone == first_open # <<>> /\ history.index = Len(history.diffs)

\* C1: once the diffs of the moves made since placement have all been undone in
\* reverse order, the game is exactly the post-placement one: every cell's
\* visibility and content, flagged_cells, closed_empty_cells, open_mine_cells
\* and win_state
C1_RoundTrip ==
  AllUndone => \E b \in PlacedBoards : Listed(game_state) = Listed(b)

RevealCounters ==
  /\ game_state.closed_empty_cells = Cardinality(HiddenEmpty)
  /\ game_state.open_mine_cells = Cardinality(ShownMines)

\* C3, as stated: from board construction onward closed_empty_cells is the
\* number of hidden Empty cells and open_mine_cells the number of shown Mine
\* cells
C3_RevealCountersAlways == RevealCounters

\* C3, amended: in every state after mine placement closed_empty_cells is the
\* number of hidden Empty cells and open_mine_cells the number of shown Mine
\* cells
C3_RevealCountersPlaced == game_state.win_state # Untouched => RevealCounters

\* a flood has been applied, a later move has been undone
C3_Witness ==
  /\ game_state.win_state = Ongoing
  /\ Len(history.diffs) >= 2
  /\ history.index = 1
  /\ Cardinality(ShownNow) >= 9
  /\ HiddenEmpty # {}

\* C4: flagged_cells is the number of cells whose visibility is Hidden(Flagged)
C4_FlagCounter == game_state.flagged_cells = Cardinality(FlaggedNow)

MinesNow == {i \in Indices : IsMine(game_state.cells[i].content)}

\* the indices of the 3x3 block around xy, clipped to the board
Block3x3(xy, w, h) ==
  {y * w + x : x \in {c \in (xy[1] - 1)..(xy[1] + 1) : 0 <= c /\ c < w},
               y \in {c \in (xy[2] - 1)..(xy[2] + 1) : 0 <= c /\ c < h}}

\* C6: after the placement no cell of the 3x3 block around the first opened
\* cursor, clipped to the board, is a Mine
C6_PlacementSafe ==
  first_open # <<>> =>
    MinesNow \cap Block3x3(first_open[1], args.width, args.height) = {}

\* the most mines the board takes, placed around a first open in a corner
C6_Witness ==
  /\ first_open = << <<args.width - 1, 0>> >>
  /\ args.mines = args.width * args.height - SAFE_ZONE
  /\ Cardinality(MinesNow) = args.mines

\* C7: the placement puts exactly args.mines mines on the board, none of them
\* on a whitelisted cell, in the direct and in the inverted branch
C7_ExactMines ==
  first_open # <<>> =>
    /\ Cardinality(MinesNow) = args.mines
    /\ MinesNow \cap Whitelist(args, first_open[1]) = {}

\* a placement of the inverted branch that draws more than one complement cell
C7_Witness ==
  /\ first_open # <<>>
  /\ args.mines > (args.width * args.height) \div 2
  /\ args.mines < args.width * args.height - SAFE_ZONE - 1
  /\ Cardinality(MinesNow) = args.mines

\* the cursors whose cell is a hidden Mine an OpenCell would reveal
OpenableMines ==
  {c \in Cursors :
     LET cell == game_state.cells[xy_i(c, args.width, args.height)]
     IN  IsMine(cell.content)
           /\ cell.visibility \in {Hidden(Clear), Hidden(FlaggedMaybe)}}

LastMoveOpenedMine ==
  /\ history.index = 0
  /\ history.diffs # <<>>
  /\ BackDiff(history).diff.kind = "SingleCell"
  /\ IsMine(BackDiff(history).diff.cells[1].before.content)
  /\ BackDiff(history).diff.cells[1].after.visibility = Show

C9_UndoMine ==
  LastMoveOpenedMine =>
    LET d == BackDiff(history).diff.cells[1]
        u == GameStateUndo(game_state, BackDiff(history))
    IN  /\ u.ok
        /\ u.game.win_state = Ongoing
        /\ IsHidden(u.game.cells[d.index].visibility)
        /\ u.game.cells[d.index].visibility = d.before.visibility
        /\ d.before.visibility \in {Hidden(Clear), Hidden(FlaggedMaybe)}
        /\ u.game.open_mine_cells = 0

\* the opening of a mine has just been undone
C9_Witness ==
  /\ history.index = 1
  /\ history.diffs[Len(history.diffs)].diff.kind = "SingleCell"
  /\ IsMine(history.diffs[Len(history.diffs)].diff.cells[1].before.content)
  /\ history.diffs[Len(history.diffs)].diff.cells[1].after.visibility = Show
  /\ game_state.win_state = Ongoing
  /\ ShownMines = {}
  /\ game_state.open_mine_cells = 0

\* Clear -> Flagged -> FlaggedMaybe -> Clear
CyclicSuccessor(f) ==
  CASE f = Clear -> Flagged [] f = Flagged -> FlaggedMaybe [] f = FlaggedMaybe -> Clear

\* FlagCell at c advances the flag of a hidden cell; from Hidden(Clear), three
\* FlagCell, or two FlagCell and a ClearFlag, give Hidden(Clear) and the
\* flagged_cells of the start
FlagCycleAt(c) ==
  LET i  == xy_i(c, args.width, args.height)
      v  == game_state.cells[i].visibility
      g1 == AfterCommand(FlagCell(c), game_state, args)
      g2 == AfterCommand(FlagCell(c), g1, args)
      g3 == AfterCommand(FlagCell(c), g2, args)
      gc == AfterCommand(ClearFlag(c), g2, args)
  IN  /\ IsHidden(v) => g1.cells[i].visibility = Hidden(CyclicSuccessor(v))
      /\ v = Hidden(Clear) =>
           /\ g2.cells[i].visibility = Hidden(FlaggedMaybe)
           /\ g3.cells[i].visibility = Hidden(Clear)
           /\ g3.flagged_cells = game_state.flagged_cells
           /\ gc.cells[i].visibility = Hidden(Clear)
           /\ gc.flagged_cells = game_state.flagged_cells

PendingInvalidCursor ==
  /\ Pending("Command")
  /\ input_state.action[1].arg.kind \in {"OpenCell", "FlagCell", "ClearFlag"}
  /\ ~InBounds(input_state.action[1].arg.xy, args.width, args.height)

\* C11: an OpenCell, FlagCell or ClearFlag whose cursor is outside the board
\* (x >= width or y >= height) does not panic and leaves the whole game state
\* unchanged in every win_state; on an Untouched board no mines are placed and
\* win_state stays Untouched
C11_InvalidCursorNoOp ==
  [][PendingInvalidCursor
       => /\ panicked' = "none"
          /\ UNCHANGED <<args, game_state, history>>]_vars


\* C12: GameCommand::apply leaves the GameState it is given as it was (cells,
\* counters and win_state); the board changes only when the engine applies the
\* diff it returns
C12_ApplyReadOnly ==
  \A cmd \in Commands : GameCommandApply(cmd, game_state, args).game = game_state


\* C13: in Ongoing state an OpenCell whose target is Shown or Hidden(Flagged)
\* returns no diff and changes no cell, no counter and not win_state, whichever
\* cell of the board it targets (so re-opening a cell of an expanded region
\* does nothing)
C13_OpenGuard ==
  game_state.win_state = Ongoing =>
    \A i \in Indices :
      game_state.cells[i].visibility \in {Show, Hidden(Flagged)} =>
        LET cmd == OpenCell(i_xy(i, args.width, args.height))
            r   == GameCommandApply(cmd, game_state, args)
        IN  /\ r.diff = NoDiff
            /\ ~r.panic
            /\ r.game = game_state
            /\ AfterCommand(cmd, game_state, args) = game_state

\* an Ongoing game with an expanded region of at least nine Shown cells around
\* an Empty(0) cell, and a Flagged cell
C13_Witness ==
  /\ game_state.win_state = Ongoing
  /\ FlaggedNow # {}
  /\ Cardinality(ShownNow) >= 9
  /\ \E i \in ShownNow : game_state.cells[i].content = Empty(0)


\* the indices a sequence of SingleCellDiff names
DiffIndices(ds) == {ds[k].index : k \in 1..Len(ds)}

\* C14: in Ongoing state Surrender yields a MultiCell diff with exactly one
\* entry for each cell that was not Shown (flagged and maybe-flagged ones
\* too), none for a cell already Shown, each entry ending in Shown; once it is
\* applied every cell is Shown and win_state is Lost
C14_SurrenderDiff ==
  game_state.win_state = Ongoing =>
    LET r      == GameCommandApply(Surrender, game_state, args)
        ds     == r.diff[1].diff.cells
        closed == Indices \ ShownNow
        after  == AfterCommand(Surrender, game_state, args)
    IN  /\ ~r.panic
        /\ r.diff # NoDiff
        /\ r.diff[1].diff.kind = "MultiCell"
        /\ DiffIndices(ds) = closed
        /\ Len(ds) = Cardinality(closed)
        /\ \A k \in 1..Len(ds) :
             /\ ds[k].before = game_state.cells[ds[k].index]
             /\ ds[k].after = [ds[k].before EXCEPT !.visibility = Show]
        /\ \A i \in DOMAIN after.cells : after.cells[i].visibility = Show
        /\ after.win_state = Lost


\* C15: (in Ongoing state) ClearFlag on a Hidden(Flagged) or
\* Hidden(FlaggedMaybe) cell sets it to Hidden(Clear) and decreases
\* flagged_cells by one exactly when the cell was Flagged; ClearFlag on a Shown
\* or Hidden(Clear) cell returns no diff and changes nothing
C15_ClearFlag ==
  game_state.win_state = Ongoing =>
    \A c \in Cursors :
      LET i     == xy_i(c, args.width, args.height)
          v     == game_state.cells[i].visibility
          r     == GameCommandApply(ClearFlag(c), game_state, args)
          after == AfterCommand(ClearFlag(c), game_state, args)
      IN  IF v \in {Hidden(Flagged), Hidden(FlaggedMaybe)}
          THEN /\ after.cells[i].visibility = Hidden(Clear)
               /\ after.flagged_cells =
                    IF v = Hidden(Flagged) THEN Sub32(game_state.flagged_cells, 1)
                    ELSE game_state.flagged_cells
          ELSE /\ r.diff = NoDiff
               /\ after = game_state


\* the engine is as Minesweeper::new leaves it for the args a
FreshBoard(a, game, h) ==
  /\ game.win_state = Untouched
  /\ DOMAIN game.cells = 0..(a.width * a.height - 1)
  /\ \A i \in DOMAIN game.cells : game.cells[i] = [visibility |-> Hidden(Clear),
                                                    content |-> Empty(0)]
  /\ game.flagged_cells = 0
  /\ game.open_cells = 0
  /\ h.diffs = <<>>
  /\ ~CanStepBack(h)
  /\ ~CanStepForward(h)

\* C16: an update() that takes a pending Restart (plain, ResizeH, ResizeV,
\* IncrementMines or IncrementMinesPercent), from any state, leaves win_state
\* Untouched, every cell Hidden(Clear) with content Empty(0), the flagged and
\* open counters 0, width*height cells for the new args and an empty history
\* (nothing to undo or redo)
C16_RestartFresh ==
  [][(Pending("Restart") /\ input_state'.action = None)
       => /\ args' = clamped(RestartArgs(args, input_state.action[1].arg))
          /\ FreshBoard(args', game_state', history')]_vars

\* a fresh 9x8 board with 55 mines: no game starts with these args, a
\* ResizeH(Positive) from the 8x8 board has built it
C16_Witness ==
  /\ args = [width |-> 9, height |-> 8, mines |-> 55]
  /\ args \notin InputInitArgs
  /\ FreshBoard(args, game_state, history)
  /\ input_state.action = None


\* C17: the cursor is a valid grid coordinate in every reachable state, after
\* any Restart too (ResizeH(Negative) and ResizeV(Negative) with the cursor on
\* the last column or row included): x < width and y < height
C17_CursorInBounds ==
  InBounds(input_state.cursor, args.width, args.height)


\* the args a Restart(o) computes before Self::new clamps them stay in the
\* range of their types
RestartInRange(o) ==
  LET raw == RestartArgs(args, o)
  IN  /\ raw.width \in 0..(U16 - 1)
      /\ raw.height \in 0..(U16 - 1)
      /\ raw.mines \in 0..(2 * MAX_SIDE * MAX_SIDE)

\* C18: for any initial args and after any sequence of Restart actions,
\* 8 <= width <= 256, 8 <= height <= 256 and 1 <= mines <= width*height - 9
\* (the mine count is below the number of cells outside the safe zone plus
\* one), and no Restart arithmetic on them underflows or overflows
C18_ArgsClamped ==
  /\ args.width \in MIN_SIDE..MAX_SIDE
  /\ args.height \in MIN_SIDE..MAX_SIDE
  /\ args.mines >= 1
  /\ args.mines <= args.width * args.height - SAFE_ZONE
  /\ args.mines < (args.width * args.height - SAFE_ZONE) + 1
  /\ \A o \in RestartActions : RestartInRange(o)

\* the largest board one mine short of full: no game starts with a mine count
\* other than the smallest or the largest, an IncrementMines(Negative) or an
\* IncrementMinesPercent has led here
C18_Witness ==
  /\ args.width = MAX_SIDE
  /\ args.height = MAX_SIDE
  /\ args.mines = MAX_SIDE * MAX_SIDE - SAFE_ZONE - 1
  /\ args \notin {clamped(r) : r \in RawArgs}


\* what update() works on, the input state apart
engine == <<args, game_state, history, first_open, panicked>>

\* C19: update() with an empty pending slot changes nothing (no step from a
\* state with an empty slot touches the engine); an update() that processes a
\* pending action of any kind (Command, Restart, Debug) leaves the slot empty,
\* so the action is processed once and a second update() without a new submit
\* finds nothing to do
C19_PendingProtocol ==
  [][/\ input_state.action = None => UNCHANGED engine
     /\ engine' # engine => input_state'.action = None]_vars

\* the slot is empty after a Restart (the args are not those of a start), a
\* Command (its diff is in the history) and a Debug(Undo) (the diff is undone)
\* have been processed
C19_Witness ==
  /\ input_state.action = None
  /\ args \notin InputInitArgs
  /\ Len(history.diffs) = 1
  /\ history.index = 1


\* C20: win_state leaves Untouched only through an OpenCell that reveals at
\* least one cell: a step from an Untouched board that does not reveal a cell
\* (FlagCell, ClearFlag, Surrender, an OpenCell that opens nothing) places no
\* mines and leaves win_state Untouched
C20_UntouchedUntilReveal ==
  [][(/\ game_state.win_state = Untouched
      /\ \A i \in DOMAIN game_state'.cells :
           game_state'.cells[i].visibility # Show)
       => /\ game_state'.win_state = Untouched
          /\ \A i \in DOMAIN game_state'.cells :
               ~IsMine(game_state'.cells[i].content)]_vars


\* the cells of the board next to cell i, i apart
Neighbours8(i, w, h) ==
  LET x == i % w
      y == i \div w
  IN  {(y + dy) * w + (x + dx) :
         <<dx, dy>> \in {d \in (-1..1) \X (-1..1) :
                           /\ d # <<0, 0>>
                           /\ x + d[1] \in 0..(w - 1)
                           /\ y + d[2] \in 0..(h - 1)}}

HiddenAround(cs, Z, w, h) ==
  {j \in UNION {Neighbours8(i, w, h) : i \in Z} : IsHidden(cs[j].visibility)}

RECURSIVE ZeroRegion(_, _, _, _)
\* the least set that contains Z and every hidden Empty(0) cell next to one
\* of its members
ZeroRegion(cs, Z, w, h) ==
  LET next == Z \cup {j \in HiddenAround(cs, Z, w, h) : cs[j].content = Empty(0)}
  IN  IF next = Z THEN Z ELSE ZeroRegion(cs, next, w, h)

\* R: the zero region of the origin and the hidden cells next to it
FloodRegion(cs, origin, w, h) ==
  LET Z == ZeroRegion(cs, {origin}, w, h)
  IN  Z \cup HiddenAround(cs, Z, w, h)

\* the origins a flood can start from in the current state
FloodOriginsNow ==
  {xy_i(c, args.width, args.height) : c \in FloodOrigins}
    \cap {i \in Indices : /\ IsHidden(game_state.cells[i].visibility)
                          /\ game_state.cells[i].content = Empty(0)}

\* C21: the flood from a hidden Empty(0) origin reveals exactly R = Z plus the
\* hidden 8-neighbours of Z (flagged ones too), Z the least set with the
\* origin and every hidden Empty(0) cell next to a member of Z; every cell of
\* R becomes Shown, no cell outside R changes, and OpenCell on an openable
\* origin leaves the board the flood leaves
C21_FloodRegion ==
  game_state.win_state = Ongoing =>
    \A o \in FloodOriginsNow :
      LET cs  == game_state.cells
          w   == args.width
          h   == args.height
          R   == FloodRegion(cs, o, w, h)
          e   == expand_cell_diff_result(cs, w, h, o)
          cmd == OpenCell(i_xy(o, w, h))
      IN  /\ ~e.panic
          /\ \A i \in Indices :
               e.cells[i] = IF i \in R THEN [cs[i] EXCEPT !.visibility = Show]
                            ELSE cs[i]
          /\ DiffIndices(e.ret) = R
          /\ cs[o].visibility # Hidden(Flagged) =>
               AfterCommand(cmd, game_state, args).cells = e.cells

\* every cell is hidden again after an undo, flags are set, and the flood from
\* the origin would reveal a region of more than twenty cells with a Flagged
\* cell in it
C21_Witness ==
  /\ game_state.win_state = Ongoing
  /\ ShownNow = {}
  /\ \E o \in FloodOriginsNow :
       LET R == FloodRegion(game_state.cells, o, args.width, args.height)
       IN  /\ Cardinality(R) > 20
           /\ R \cap FlaggedNow # {}


\* the diff entries of one flood, as a sequence
FloodDiff(o) ==
  expand_cell_diff_result(game_state.cells, args.width, args.height, o).ret

\* C22: the MultiCell diff of one flood names each cell index at most once,
\* and every entry goes from Hidden(_) to Shown
C22_FloodDiffEntries ==
  game_state.win_state = Ongoing =>
    \A o \in FloodOriginsNow :
      LET ret == FloodDiff(o)
      IN  /\ \A k, l \in 1..Len(ret) : ret[k].index = ret[l].index => k = l
          /\ \A k \in 1..Len(ret) :
               /\ IsHidden(ret[k].before.visibility)
               /\ ret[k].after.visibility = Show
               /\ ret[k].before = game_state.cells[ret[k].index]

\* a flood on a partly shown board whose diff has more than ten entries, one
\* of them for a flagged cell
C22_Witness ==
  /\ game_state.win_state = Ongoing
  /\ ShownNow # {}
  /\ \E o \in FloodOriginsNow :
       LET ret == FloodDiff(o)
       IN  /\ Len(ret) > 10
           /\ \E k \in 1..Len(ret) : ret[k].before.visibility = Hidden(Flagged)


(***************************************************************************)
(* minesweeper.rs: the flood of show_tile, with a queue                    *)
(***************************************************************************)
\* Minesweeper::_show_tile on the tile at index i; ms = [cells, open_cells,
\* flagged_cells, ...]
_show_tile(ms, i) ==
  LET v == ms.cells[i].visibility
  IN  [ms EXCEPT !.cells[i].visibility = Show,
                 !.open_cells = IF IsHidden(v) THEN Add32(@, 1) ELSE @,
                 !.flagged_cells = IF v = Hidden(Flagged) THEN Sub32(@, 1) ELSE @]

\* the arm taken for every Empty(_) content
IsAnyEmpty(content) == IsEmpty(content)

\* the arm `Empty(0) =>` of the match on the popped tile's content
IsEmptyZero(content) == content = Empty(0)

RECURSIVE ShowTileNeighbors(_, _, _, _, _, _)
\* the `for (dx, dy) in DIRS_8` loop of show_tile, from its k-th direction on;
\* ms carries the queue (point_stack) and, to count the work done, pushed and
\* pops
ShowTileNeighbors(ms, w, h, x, y, k) ==
  IF k > Len(DIRS_8) THEN ms
  ELSE LET i == WrappingAddSigned16(x, DIRS_8[k][1])
           j == WrappingAddSigned16(y, DIRS_8[k][2])
           t == get_tile_index(w, h, i, j)
       IN  IF t = NoIndex \/ ~IsHidden(ms.cells[t].visibility)
           THEN ShowTileNeighbors(ms, w, h, x, y, k + 1)
           ELSE ShowTileNeighbors(
                  [_show_tile(ms, t) EXCEPT !.point_stack = Append(@, <<i, j>>),
                                            !.pushed = Append(@, <<i, j>>)],
                  w, h, x, y, k + 1)

\* one round of `while let Some((x, y)) = point_stack.pop_front() { ... }`;
\* ms itself when the queue is empty
ShowTileRound(ms, w, h) ==
  IF ms.point_stack = <<>> THEN ms
  ELSE LET xy == Head(ms.point_stack)
           m1 == [ms EXCEPT !.point_stack = Tail(@), !.pops = @ + 1]
           t  == get_tile_index(w, h, xy[1], xy[2])
       IN  IF t = NoIndex THEN m1
           ELSE IF IsEmptyZero(m1.cells[t].content)
           THEN ShowTileNeighbors(m1, w, h, xy[1], xy[2], 1)
           ELSE m1

RECURSIVE ShowTileRounds(_, _, _, _)
\* n rounds of the loop, one after the other: the first half of them, then
\* (on the record they leave) the rest
ShowTileRounds(ms, w, h, n) ==
  IF n <= 1 THEN ShowTileRound(ms, w, h)
  ELSE LET half == ShowTileRounds(ms, w, h, n \div 2)
       IN  IF half.pops >= ms.pops THEN ShowTileRounds(half, w, h, n - n \div 2)
           ELSE half

RECURSIVE ShowTileLoop(_, _, _)
\* while let Some((x, y)) = point_stack.pop_front() { ... }: rounds until the
\* queue is empty
ShowTileLoop(ms, w, h) ==
  IF ms.point_stack = <<>> THEN ms
  ELSE ShowTileLoop(ShowTileRounds(ms, w, h, w * h), w, h)

\* the record the flood of show_tile starts from
LegacyTiles(cs, open, flagged) ==
  [cells |-> cs, open_cells |-> open, flagged_cells |-> flagged,
   point_stack |-> <<>>, pushed |-> <<>>, pops |-> 0]

\* show_tile that pushes the origin without showing it first
ShowTileFloodOriginHidden(ms, w, h, x, y) ==
  ShowTileLoop([ms EXCEPT !.point_stack = Append(@, <<x, y>>),
                          !.pushed = Append(@, <<x, y>>)], w, h)

\* show_tile from the _show_tile of the target on, for a target that is not a
\* mine: the record when the queue is empty
show_tile_flood(ms, w, h, x, y) ==
  LET m1 == _show_tile(ms, get_tile_index(w, h, x, y))
  IN  ShowTileLoop([m1 EXCEPT !.point_stack = Append(@, <<x, y>>),
                              !.pushed = Append(@, <<x, y>>)], w, h)

\* the tiles of the current game as show_tile keeps them: open_cells and
\* flagged_cells are the numbers of Shown and of Flagged tiles
TilesNow ==
  LegacyTiles(game_state.cells, Cardinality(ShownNow), Cardinality(FlaggedNow))

\* the queue flood from the origin with index o
QueueFlood(o) ==
  LET xy == i_xy(o, args.width, args.height)
  IN  show_tile_flood(TilesNow, args.width, args.height, xy[1], xy[2])

\* the stack flood from the origin with index o
StackFlood(o) ==
  expand_cell_diff_result(game_state.cells, args.width, args.height, o)

NoRepeat(s) == \A k, l \in 1..Len(s) : s[k] = s[l] => k = l

\* C23: both floods end, with an empty worklist, after pushing each cell at
\* most once and popping at most width*height times
C23_FloodTerminates ==
  game_state.win_state = Ongoing =>
    \A o \in FloodOriginsNow :
      LET e == StackFlood(o)
          q == QueueFlood(o)
      IN  /\ ~e.panic
          /\ e.stack = <<>>
          /\ NoRepeat(e.pushed)
          /\ e.pops = Len(e.pushed)
          /\ e.pops <= args.width * args.height
          /\ q.point_stack = <<>>
          /\ NoRepeat(q.pushed)
          /\ q.pops = Len(q.pushed)
          /\ q.pops <= args.width * args.height

\* a flood that pops more than ten cells with the stack and more than twenty
\* with the queue
C23_Witness ==
  /\ game_state.win_state = Ongoing
  /\ \E o \in FloodOriginsNow :
       /\ StackFlood(o).pops > 10
       /\ QueueFlood(o).pops > 20


ShownIn(cs) == {i \in DOMAIN cs : cs[i].visibility = Show}

\* C24: from the same board and the same hidden Empty(0) origin the stack
\* flood and the queue flood end with the same set of Shown cells
C24_OrderIrrelevant ==
  game_state.win_state = Ongoing =>
    \A o \in FloodOriginsNow :
      ShownIn(StackFlood(o).cells) = ShownIn(QueueFlood(o).cells)

\* the two floods push different numbers of cells and reveal more than twenty
\* cells of a board with a flagged cell on it
C24_Witness ==
  /\ game_state.win_state = Ongoing
  /\ FlaggedNow # {}
  /\ \E o \in FloodOriginsNow :
       /\ Len(StackFlood(o).pushed) < Len(QueueFlood(o).pushed)
       /\ Cardinality(ShownIn(QueueFlood(o).cells) \ ShownNow) > 20


\* the diffs that are applied: the log without its undone tail
AppliedDiffs(hist) == SubSeq(hist.diffs, 1, Len(hist.diffs) - hist.index)

\* C25: a step that changes the logged diffs, other than to the empty log of
\* a restart, is a push: the undone diffs are gone, the log is the diffs that
\* were applied followed by one new diff, the cursor is 0 and step_forward
\* would change nothing
C25_PushDropsRedoTail ==
  [][(history'.diffs # history.diffs /\ history'.diffs # <<>>) =>
       LET n == Len(history.diffs) - history.index
       IN  /\ Len(history'.diffs) = n + 1
           /\ \A k \in 1..n : history'.diffs[k] = history.diffs[k]
           /\ history'.index = 0
           /\ step_forward(game_state', history').game = game_state'
           /\ step_forward(game_state', history').history = history']_vars

\* the game is Ongoing, so an OpenCell was logged, yet the log is one flag
\* diff with nothing undone: the OpenCell diff was undone and then dropped by
\* the push of the flag
C25_Witness ==
  /\ game_state.win_state = Ongoing
  /\ history.index = 0
  /\ Len(history.diffs) = 1
  /\ history.diffs[1].diff.kind = "SingleCell"
  /\ history.diffs[1].diff.cells[1].after.visibility = Hidden(Flagged)


\* C26: the cursor is between 0 and the number of logged diffs; step_back
\* with every diff undone (or an empty log) and step_forward with the cursor
\* at 0 leave the game (cells, counters, win_state) and the history as they are
C26_CursorBounds ==
  /\ history.index >= 0
  /\ history.index <= Len(history.diffs)
  /\ history.index = Len(history.diffs) =>
       LET r == step_back(game_state, history)
       IN  r.game = game_state /\ r.history = history /\ r.ok
  /\ history.index = 0 =>
       LET r == step_forward(game_state, history)
       IN  r.game = game_state /\ r.history = history

\* three diffs are logged and all three are undone
C26_Witness ==
  /\ Len(history.diffs) = MaxHistory
  /\ history.index = Len(history.diffs)
  /\ panicked = "none"


\* C27: where step_back undoes a diff, step_forward after it re-applies that
\* very diff and gives back the game and the history there were before the
\* step_back; and step_back after a step_forward that re-applied a diff
\* gives back the game and the history there were before the step_forward
C27_RedoInvertsUndo ==
  panicked = "none" =>
    /\ history.index < Len(history.diffs) =>
         LET b == step_back(game_state, history)
             f == step_forward(b.game, b.history)
         IN  /\ b.ok
             /\ b.history.index = history.index + 1
             /\ b.history.diffs[Len(history.diffs) - b.history.index + 1] =
                  history.diffs[Len(history.diffs) - history.index]
             /\ f.game = game_state
             /\ f.history = history
    /\ history.index > 0 =>
         LET f == step_forward(game_state, history)
             b == step_back(f.game, f.history)
         IN  /\ f.history.index = history.index - 1
             /\ b.ok
             /\ b.game = game_state
             /\ b.history = history

\* one of three diffs is undone, and the next to undo is a flood of more than
\* one cell
C27_Witness ==
  /\ panicked = "none"
  /\ Len(history.diffs) = MaxHistory
  /\ history.index = 1
  /\ history.diffs[2].diff.kind = "MultiCell"
  /\ Len(history.diffs[2].diff.cells) > 1


\* C28: no step_back has failed the undo assertion, and the diff a step_back
\* would undo now finds, entry by entry in diff order, each cell equal to the
\* entry's recorded `after`
C28_UndoAssertion ==
  /\ panicked # "undo"
  /\ (panicked = "none" /\ history.index < Len(history.diffs)) =>
       LET d == history.diffs[Len(history.diffs) - history.index]
       IN  /\ UndoCells([game |-> game_state, ok |-> TRUE], d.diff.cells, 1).ok
           /\ \A k \in 1..Len(d.diff.cells) :
                game_state.cells[d.diff.cells[k].index] = d.diff.cells[k].after

\* every diff of a log of at least two has been undone, the first of them a
\* flood of more than one cell, and no assertion failed
C28_Witness ==
  /\ panicked = "none"
  /\ Len(history.diffs) >= 2
  /\ history.index = Len(history.diffs)
  /\ history.diffs[1].diff.kind = "MultiCell"
  /\ Len(history.diffs[1].diff.cells) > 1
  /\ history.diffs[2].diff.kind = "SingleCell"


RECURSIVE Replay(_, _, _)
\* the game after applying the diffs ds to it in order, from the k-th on
Replay(game, ds, k) ==
  IF k > Len(ds) THEN game
  ELSE LET next == GameStateApply(game, ds[k])
       IN  IF next.flagged_cells = next.flagged_cells
           THEN Replay(next, ds, k + 1)
           ELSE game

\* C29: after placement the cells and the counters of the game are those of
\* the freshly placed all-hidden board with the first (length - cursor) diffs
\* of the history applied to it in order
C29_BoardIsReplay ==
  (first_open # <<>> /\ panicked = "none") =>
    \E b \in PlacedBoards :
      Listed(game_state) = Listed(Replay(b, AppliedDiffs(history), 1))


\* the mines among the in-bounds 8-neighbours of the cell with index i
MinesAround(i) ==
  {j \in Neighbours8(i, args.width, args.height) :
     IsMine(game_state.cells[j].content)}

\* C30: after the placement every Empty(n) cell has n equal to the number of
\* mines among its in-bounds 8-neighbours, between 0 and 8, on the edges of
\* the board as well: a mine on one edge adds nothing on the opposite edge
C30_NeighbourCounts ==
  first_open # <<>> =>
    \A i \in Indices :
      IsEmpty(game_state.cells[i].content) =>
        /\ game_state.cells[i].content.n = Cardinality(MinesAround(i))
        /\ game_state.cells[i].content.n \in 0..8

\* a placed board with a mine in the first column whose row ends in an
\* Empty(0) cell in the last column, and with an Empty(5) cell in the first row
C30_Witness ==
  /\ first_open # <<>>
  /\ \E y \in 0..(args.height - 1) :
       /\ IsMine(game_state.cells[y * args.width].content)
       /\ game_state.cells[y * args.width + args.width - 1].content = Empty(0)
  /\ \E x \in 0..(args.width - 1) : game_state.cells[x].content = Empty(5)


ContentOf(game) == [i \in DOMAIN game.cells |-> game.cells[i].content]

MinesOf(game) == {i \in DOMAIN game.cells : IsMine(game.cells[i].content)}

\* every entry of every logged diff keeps the content of its cell
ContentKept(hist) ==
  \A k \in 1..Len(hist.diffs) :
    \A l \in 1..Len(hist.diffs[k].diff.cells) :
      hist.diffs[k].diff.cells[l].before.content =
        hist.diffs[k].diff.cells[l].after.content

\* C31: on every step between two states past Untouched (a command, an undo
\* or a redo, not a Restart) no cell's content changes; after every step that
\* leaves a state past Untouched every logged diff entry has before.content =
\* after.content and the board has args.mines Mine cells
C31_ContentFrozen ==
  [][/\ (game_state.win_state # Untouched /\ game_state'.win_state # Untouched)
          => ContentOf(game_state') = ContentOf(game_state)
     /\ game_state'.win_state # Untouched
          => /\ ContentKept(history')
             /\ Cardinality(MinesOf(game_state')) = args'.mines]_vars

\* three diffs are logged, the last of them lost the game and has been undone
C31_Witness ==
  /\ game_state.win_state = Ongoing
  /\ Len(history.diffs) = MaxHistory
  /\ history.index = 1
  /\ history.diffs[MaxHistory].win_state = Lost
  /\ Cardinality(MinesOf(game_state)) = args.mines


\* the indices below size that are not in chosen
Unchosen(chosen, size) == (0..(size - 1)) \ chosen

\* the (n+1)-th smallest index below size that is not in chosen
NthUnchosen(chosen, size, n) ==
  CHOOSE x \in Unchosen(chosen, size) :
    Cardinality({y \in Unchosen(chosen, size) : y < x}) = n

\* C32: a draw r0 below size - |chosen| is skipped forward to the (r0+1)-th
\* smallest index not in chosen, which is below size and not in chosen; over
\* the draws 0 .. size - |chosen| - 1 the loop is one-to-one and onto the
\* indices not in chosen
C32_SkipForwardBijection ==
  /\ sample.r # -1 =>
       /\ sample.r0 \in 0..(sample.size - Cardinality(sample.before) - 1)
       /\ sample.r = NthUnchosen(sample.before, sample.size, sample.r0)
       /\ sample.r < sample.size
       /\ sample.r \notin sample.before
  /\ LET W     == sample.whitelisted
         draws == 0..(sample.size - Cardinality(W) - 1)
     IN  /\ \A r1, r2 \in draws :
               SkipForward(W, r1) = SkipForward(W, r2) => r1 = r2
         /\ {SkipForward(W, r0) : r0 \in draws} = Unchosen(W, sample.size)

\* a draw was skipped past three chosen indices and stopped below a fourth
C32_Witness ==
  /\ sample.r = sample.r0 + 3
  /\ sample.r0 >= 0
  /\ \E x \in sample.before : x > sample.r
  /\ \E x \in sample.before : x > sample.r0 /\ x < sample.r


\* C33: after the first OpenCell at an in-bounds cursor the cell at the
\* cursor has content Empty(0) and is Shown, the logged diff is that of a
\* flood, nothing panicked and win_state is Ongoing or Won, not Lost
C33_FirstOpenSafe ==
  first_open # <<>> =>
    LET i == xy_i(first_open[1], args.width, args.height)
    IN  /\ i # NoIndex
        /\ game_state.cells[i].content = Empty(0)
        /\ game_state.cells[i].visibility = Show
        /\ panicked = "none"
        /\ Len(history.diffs) = 1
        /\ history.diffs[1].diff.kind = "MultiCell"
        /\ history.diffs[1].diff.cells[1].index = i
        /\ game_state.win_state \in {Ongoing, Won}

\* the first open was at the corner (0, 0) of a board with the largest mine
\* count, and it won the game
C33_Witness ==
  /\ first_open = << <<0, 0>> >>
  /\ args.mines = args.width * args.height - SAFE_ZONE
  /\ game_state.win_state = Won


ShownZeros ==
  {i \in Indices : /\ game_state.cells[i].visibility = Show
                   /\ game_state.cells[i].content = Empty(0)}

\* C34: every Shown Empty(0) cell has all its in-bounds 8-neighbours Shown
C34_ZerosExpanded ==
  \A i \in ShownZeros :
    \A j \in Neighbours8(i, args.width, args.height) :
      game_state.cells[j].visibility = Show

\* zero cells are Shown on a board with a flagged cell, three diffs logged
\* and one of them undone
C34_Witness ==
  /\ ShownZeros # {}
  /\ FlaggedNow # {}
  /\ Len(history.diffs) = MaxHistory
  /\ history.index = 1


\* the board of the current game with every cell hidden again
AllHidden ==
  [i \in Indices |-> [game_state.cells[i] EXCEPT !.visibility = Hidden(Clear)]]

ZeroCells == {i \in Indices : game_state.cells[i].content = Empty(0)}

\* C35: on a placed board the flood from any Empty(0) origin, all cells
\* hidden, reaches neither unreachable!() arm and reveals no mine; nor did
\* the flood of the first open
C35_FloodMeetsNoMine ==
  first_open # <<>> =>
    /\ panicked = "none"
    /\ \A o \in ZeroCells :
         LET e == expand_cell_diff_result(AllHidden, args.width, args.height, o)
         IN  /\ ~e.panic
             /\ \A k \in 1..Len(e.ret) : IsEmpty(e.ret[k].before.content)
             /\ \A i \in Indices :
                  IsMine(e.cells[i].content) => e.cells[i].visibility # Show

\* a placed board with mines on which some flood reveals more than twenty
\* cells and stops at numbered cells next to mines
C35_Witness ==
  /\ first_open # <<>>
  /\ args.mines >= 3
  /\ \E o \in ZeroCells :
       LET e == expand_cell_diff_result(AllHidden, args.width, args.height, o)
       IN  /\ Len(e.ret) > 20
           /\ \E k \in 1..Len(e.ret) : e.ret[k].before.content.n >= 2


\* C36: flagged_cells is at most args.mines (as u32 values), so that
\* mines - flagged_cells does not underflow
C36_FlagsWithinMines == ~Lt32(args.mines, game_state.flagged_cells)


\* every cursor of the board, and cursors just outside it
AnyCursors == (0..args.width) \X (0..args.height)

AnyCommands ==
  {OpenCell(c) : c \in AnyCursors} \cup {FlagCell(c) : c \in AnyCursors}
    \cup {ClearFlag(c) : c \in AnyCursors} \cup {Surrender}

Block(x, y, w, h) ==
  {j * w + i : <<i, j>> \in {c \in ((x - 1)..(x + 1)) \X ((y - 1)..(y + 1)) :
                               /\ c[1] \in 0..(w - 1)
                               /\ c[2] \in 0..(h - 1)}}

\* the coordinate moved one step inward when it is on an edge
Inward(v, side) == IF v = 0 THEN 1 ELSE IF v = side - 1 THEN side - 2 ELSE v

\* C38: for every cursor of the board the whitelist has exactly nine indices,
\* all on the board: the 3x3 block around the cursor moved one step inward
\* from the edges, which contains the cursor's own 3x3 block clipped to the
\* board
C38_SafeZoneNine ==
  \A xy \in (0..(args.width - 1)) \X (0..(args.height - 1)) :
    LET wl == Whitelist(args, xy)
    IN  /\ Cardinality(wl) = SAFE_ZONE
        /\ wl \subseteq 0..(args.width * args.height - 1)
        /\ wl = Block(Inward(xy[1], args.width), Inward(xy[2], args.height),
                      args.width, args.height)
        /\ Block(xy[1], xy[2], args.width, args.height) \subseteq wl

\* the first open was at the corner opposite the origin of a 9x8 board, and
\* none of the nine cells of its whitelist is a mine
C38_Witness ==
  /\ args.width = 9
  /\ first_open = << <<8, 7>> >>
  /\ Whitelist(args, first_open[1]) \cap MinesOf(game_state) = {}
  /\ Cardinality(Whitelist(args, first_open[1])) = 9


(***************************************************************************)
(* C39: the percentage steps of the mine count                             *)
(***************************************************************************)
ProbeSpan == 700

\* the mine counts the steps are tried from, on a board of the sides of a:
\* every count within ProbeSpan of the smallest or of the largest (every
\* count there is, on a board of fewer than 2 * ProbeSpan cells), and a's own
ProbeMines(a) ==
  LET max_mines == a.width * a.height - SAFE_ZONE
  IN  {a.mines}
        \cup (1..Min(max_mines, ProbeSpan))
        \cup (Max(1, max_mines - ProbeSpan)..max_mines)

PercentStep(sign) == [kind |-> "IncrementMinesPercent", sign |-> sign]

\* C39: for the clamped width and height of the game and every clamped mine
\* count, Restart(IncrementMinesPercent(Positive)) gives a game with strictly
\* more mines unless the count is already width*height - 9 (and then the
\* same count), Restart(IncrementMinesPercent(Negative)) one with strictly
\* fewer mines unless the count is already 1 (and then 1), and the value
\* computed before the clamp is a u32 in both
C39_PercentMonotone ==
  \A m \in ProbeMines(args) :
    LET a         == [args EXCEPT !.mines = m]
        max_mines == a.width * a.height - SAFE_ZONE
        raw_up    == RestartArgs(a, PercentStep(Positive)).mines
        raw_down  == RestartArgs(a, PercentStep(Negative)).mines
        up        == clamped(RestartArgs(a, PercentStep(Positive))).mines
        down      == clamped(RestartArgs(a, PercentStep(Negative))).mines
    IN  /\ raw_up \in 0..(2 * MAX_SIDE * MAX_SIDE)
        /\ raw_down \in 0..(2 * MAX_SIDE * MAX_SIDE)
        /\ IF m = max_mines THEN up = m ELSE up > m
        /\ IF m = 1 THEN down = 1 ELSE down < m

\* a game on the largest board that a percentage step has led to: its mine
\* count is a multiple of the hundredth of the board, neither the smallest
\* nor the largest count, and the step down from it lands on the multiple
\* below
C39_Witness ==
  LET hundredth == Max(1, (args.width * args.height) \div 100)
  IN  /\ args.width = MAX_SIDE
      /\ args.height = MAX_SIDE
      /\ hundredth > 1
      /\ args.mines % hundredth = 0
      /\ args.mines > hundredth
      /\ args.mines < args.width * args.height - SAFE_ZONE
      /\ args \notin {clamped(r) : r \in RawArgs}
      /\ clamped(RestartArgs(args, PercentStep(Negative))).mines
           = args.mines - hundredth


\* C40: for all clamped args, the number of rounds of fill_random is not
\* negative (`size - fills - |whitelist|` does not underflow in the inverted
\* branch), the modulus `size - |chosen|` of every draw made and of the draw
\* to come is at least 1, every index drawn is below size, and nothing
\* panics, in the direct and in the inverted branch, up to and including
\* mines = width*height - 9
C40_FillArithmeticSafe ==
  /\ panicked = "none"
  /\ args.mines <= args.width * args.height - SAFE_ZONE
  /\ sample.fills >= 0
  /\ sample.k < sample.fills =>
       sample.size - Cardinality(sample.whitelisted) >= 1
  /\ sample.k > 0 =>
       /\ sample.modulus >= 1
       /\ sample.modulus = sample.size - Cardinality(sample.before)
       /\ sample.r0 \in 0..(sample.modulus - 1)
       /\ sample.r \in 0..(sample.size - 1)
       /\ sample.r \notin sample.before

\* the last round of an inverted fill of more than one round has been made
C40_Witness ==
  /\ sample.flip
  /\ sample.fills > 1
  /\ sample.k = sample.fills
  /\ sample.r \in sample.whitelisted
  /\ Cardinality(sample.whitelisted) = sample.size - args.mines

====
